---- MODULE Spec2Model ----
(***************************************************************************)
(* Model of the SOF heap allocator (lib/alloc.c, src/unnamed/part_001).    *)
(*                                                                         *)
(* The registry `memmap` is one record: four arrays of heap descriptors    *)
(* (system, system_runtime, runtime, buffer) and the heap_trace_updated    *)
(* flag.  A heap descriptor is [heap, size, caps, blocks, map, info]; a    *)
(* block map is [base, block_size, count, free_count, first_free, block];  *)
(* a block header is [size, used].  C arrays are 0-based: block index k    *)
(* is block[k+1], heap i of an array is element i+1, core c owns element   *)
(* c+1 of the per-core arrays.  Capability masks are sets of bits, so      *)
(* (heap.caps & caps) == caps is caps \subseteq heap.caps.                 *)
(***************************************************************************)
EXTENDS Integers, Sequences, FiniteSets, Bags, TLC

VARIABLES
    memmap,     \* struct mm memmap without its lock
    lock,       \* memmap.lock: NoCore, or the core that holds it
    pc,         \* per core: where it is inside an entry point
    call,       \* per core: the entry point in progress and its arguments
    live,       \* bag of the allocations handed out and not yet given to rfree
    panicked,   \* panic() was reached: the firmware has stopped
    ub,         \* a store outside a header array has happened
    flushed     \* heaps written back by the cache shim during the last call

vars == <<memmap, lock, pc, call, live, panicked, ub, flushed>>

----------------------------------------------------------------------------
(* Bounds of the model                                                     *)

\* largest buffer request, in bytes
MaxBytes == 6
\* largest request to the single-block entry points, in bytes
MaxBlockBytes == 3
\* most allocations outstanding at once
MaxLive == 2
\* how far below zero a wrapped uint16/uint32 counter is followed
MaxWrap == 1

\* pointers given to rfree range over 1..MaxPtr and the aliases of 10..MaxAliased
MaxPtr == 75

MaxAliased == 11

----------------------------------------------------------------------------
(* Integer widths                                                          *)

U16(x) == x % 65536

\* A uint32 is held as the two's-complement reading of its 32 bits (2^32 - k
\* is held as -k), because 2^32 is beyond the model checker's integers: sums
\* and differences of held values are the held values of the wrapped results
\* as long as they stay within 2^31 of zero, which MaxWrap ensures.
U32(x) == IF x > 2147483647 - 65536 \/ x < 65536 - 2147483647 THEN 0 ELSE x

\* unsigned a < b on held values: a negative one stands for a value >= 2^31
U32Less(a, b) ==
    IF (a < 0) = (b < 0) THEN a < b ELSE b < 0

\* the held value stands for itself (the counter has not wrapped below zero)
U32Plain(x) == x >= 0

\* the largest size_t, held as the two's-complement reading of its 32 bits
SIZE_MAX == -1

NULL == 0

NoCore == -1

PLATFORM_MASTER_CORE_ID == 0

\* offset of the uncached alias of an address (platform macro)
ALIAS == 1000

cache_to_uncache(ptr) == ptr + ALIAS

is_uncached(ptr) == ptr >= ALIAS

uncache_to_cache(ptr) == ptr - ALIAS

\* cache line size, scaled down with the heap sizes
PLATFORM_DCACHE_ALIGN == 2

\* the cached address rfree works on
CachedPtr(ptr) == IF is_uncached(ptr) THEN uncache_to_cache(ptr) ELSE ptr

----------------------------------------------------------------------------
(* Heap layouts: the static initialisers of memmap, before init_heap       *)

FreeHdr == [size |-> 0, used |-> 0]

\* BLOCK_DEF(sz, cnt, hdr): base is filled in by init_heap_map
BlockDef(sz, cnt) ==
    [base |-> 0, block_size |-> sz, count |-> cnt, free_count |-> cnt,
     first_free |-> 0, block |-> [k \in 1..cnt |-> FreeHdr]]

RECURSIVE MapsBytes(_)
MapsBytes(maps) ==
    IF maps = <<>> THEN 0
    ELSE maps[1].block_size * maps[1].count + MapsBytes(Tail(maps))

\* a block heap: its size is the bytes of its maps
BlockHeap(base, caps, maps) ==
    [heap |-> base, size |-> MapsBytes(maps), caps |-> caps,
     blocks |-> Len(maps), map |-> maps,
     info |-> [used |-> 0, free |-> MapsBytes(maps)]]

\* a block heap with `slack` bytes after its last map
SlackHeap(base, caps, maps, slack) ==
    [heap |-> base, size |-> MapsBytes(maps) + slack, caps |-> caps,
     blocks |-> Len(maps), map |-> maps,
     info |-> [used |-> 0, free |-> MapsBytes(maps) + slack]]

\* a system heap has no block map
SysHeap(base, size, caps) ==
    [heap |-> base, size |-> size, caps |-> caps, blocks |-> 0, map |-> <<>>,
     info |-> [used |-> 0, free |-> size]]

\* init_heap_map advancing the base by one block per map instead of count
RECURSIVE MapBases_one_block(_, _)
MapBases_one_block(maps, base) ==
    IF maps = <<>> THEN <<>>
    ELSE <<[maps[1] EXCEPT !.base = base]>> \o
         MapBases_one_block(Tail(maps), base + maps[1].block_size)

\* map[0].base is the heap base, map[j].base follows map[j-1]
RECURSIVE MapBases(_, _)
MapBases(maps, base) ==
    IF maps = <<>> THEN <<>>
    ELSE <<[maps[1] EXCEPT !.base = base]>> \o
         MapBases(Tail(maps), base + maps[1].block_size * maps[1].count)

init_heap_map(heaps) ==
    [i \in 1..Len(heaps) |->
        [heaps[i] EXCEPT !.map = MapBases(heaps[i].map, heaps[i].heap)]]

init_heap(mm) ==
    [mm EXCEPT !.system_runtime = init_heap_map(mm.system_runtime),
               !.runtime = init_heap_map(mm.runtime),
               !.buffer = init_heap_map(mm.buffer)]

----------------------------------------------------------------------------
(* Single-block and contiguous-span allocation inside one heap.  These     *)
(* return [heap, ptr, oob, lvl, s, n]: the heap afterwards, the pointer    *)
(* (NULL on failure), whether a header outside the map's array was         *)
(* written, and the map, first slot and slot count the caller was given.   *)

NoBlock(heap) ==
    [heap |-> heap, ptr |-> NULL, oob |-> FALSE, lvl |-> 0, s |-> 0, n |-> 0]

\* the "find next free" loop: first unused header at or after first_free
find_next_free(map) ==
    LET cand == {i \in map.first_free..(map.count - 1) : map.block[i + 1].used = 0}
    IN IF cand = {} THEN map.first_free
       ELSE CHOOSE i \in cand : \A j \in cand : i <= j

alloc_block(heap, level) ==
    LET map == heap.map[level]
        ff == map.first_free
        inside == ff < map.count
        blk == IF inside
               THEN [map.block EXCEPT ![ff + 1] = [size |-> 1, used |-> 1]]
               ELSE map.block
        map1 == [map EXCEPT !.free_count = U16(@ - 1), !.block = blk]
        map2 == [map1 EXCEPT !.first_free = find_next_free(map1)]
    IN [heap |-> [heap EXCEPT !.map[level] = map2,
                              !.info.used = U32(@ + map.block_size),
                              !.info.free = U32(@ - map.block_size)],
        ptr |-> map.base + ff * map.block_size,
        oob |-> ~inside, lvl |-> level, s |-> ff, n |-> 1]

\* count = bytes / block_size, plus one if there is a remainder
span_count(map, bytes) ==
    (bytes \div map.block_size) + (IF bytes % map.block_size # 0 THEN 1 ELSE 0)

\* unused headers from first_free to the end of the map
span_remaining(map) ==
    Cardinality({c \in map.first_free..(map.count - 1) : map.block[c + 1].used = 0})

\* the "update each block" loop: for (current = start; current < count; current++)
span_mark(block, start, count) ==
    [k \in DOMAIN block |->
        IF start <= k - 1 /\ k - 1 < count
        THEN [block[k] EXCEPT !.used = 1] ELSE block[k]]

\* alloc_cont_blocks charging the span to the map's free_count before it
\* knows that the span exists
alloc_cont_blocks_charge_first(heap, level, bytes) ==
    LET map == heap.map[level]
        count == span_count(map, bytes)
        remaining == span_remaining(map)
        start == map.first_free
        inside == start < map.count
        blk == IF inside THEN [map.block EXCEPT ![start + 1].size = count]
               ELSE map.block
        map0 == [map EXCEPT !.free_count = U16(@ - count)]
        map1 == [map0 EXCEPT !.first_free = U16(@ + count),
                             !.block = span_mark(blk, start, count)]
    IN IF count > map.count \/ remaining < count
       THEN NoBlock([heap EXCEPT !.map[level] = map0])
       ELSE [heap |-> [heap EXCEPT !.map[level] = map1,
                          !.info.used = U32(@ + count * map.block_size),
                          !.info.free = U32(@ - count * map.block_size)],
             ptr |-> map.base + start * map.block_size,
             oob |-> ~inside, lvl |-> level, s |-> start, n |-> count]

alloc_cont_blocks(heap, level, bytes) ==
    LET map == heap.map[level]
        count == span_count(map, bytes)
        remaining == span_remaining(map)
        start == map.first_free
        inside == start < map.count
        blk == IF inside THEN [map.block EXCEPT ![start + 1].size = count]
               ELSE map.block
        map1 == [map EXCEPT !.free_count = U16(@ - count),
                            !.first_free = U16(@ + count),
                            !.block = span_mark(blk, start, count)]
    IN IF count > map.count \/ remaining < count
       THEN NoBlock(heap)
       ELSE [heap |-> [heap EXCEPT !.map[level] = map1,
                          !.info.used = U32(@ + count * map.block_size),
                          !.info.free = U32(@ - count * map.block_size)],
             ptr |-> map.base + start * map.block_size,
             oob |-> ~inside, lvl |-> level, s |-> start, n |-> count]

\* the zone's flag selects the uncached alias of a non-null pointer
zone_ptr(zone, ptr) ==
    IF ptr # NULL /\ zone.flag = "UNCACHED" THEN cache_to_uncache(ptr) ELSE ptr

\* maps of the heap with block_size >= bytes and a nonzero free_count
fit_levels(heap, bytes) ==
    {i \in 1..heap.blocks :
        heap.map[i].block_size >= bytes /\ heap.map[i].free_count # 0}

MinOf(S) == CHOOSE i \in S : \A j \in S : i <= j

get_ptr_from_heap(heap, zone, bytes) ==
    LET fit == fit_levels(heap, bytes)
    IN IF fit = {} THEN NoBlock(heap)
       ELSE LET r == alloc_block(heap, MinOf(fit))
            IN [r EXCEPT !.ptr = zone_ptr(zone, r.ptr)]

\* second loop of alloc_heap_buffer: maps from the last down to `level`,
\* trying a span on each map smaller than the request
RECURSIVE span_from(_, _, _)
span_from(heap, level, bytes) ==
    IF level < 1 THEN NoBlock(heap)
    ELSE IF heap.size >= bytes /\ heap.map[level].block_size < bytes
         THEN LET r == alloc_cont_blocks(heap, level, bytes)
              IN IF r.ptr # NULL THEN r ELSE span_from(r.heap, level - 1, bytes)
         ELSE span_from(heap, level - 1, bytes)

alloc_heap_buffer(heap, zone, bytes) ==
    LET fit == fit_levels(heap, bytes)
        r == IF fit # {} THEN alloc_block(heap, MinOf(fit))
             ELSE span_from(heap, heap.blocks, bytes)
    IN [r EXCEPT !.ptr = zone_ptr(zone, r.ptr)]

----------------------------------------------------------------------------
(* Pointer resolution and free                                             *)

Cores(mm) == 0..(Len(mm.system) - 1)

PLATFORM_HEAP_RUNTIME(mm) == Len(mm.runtime)

PLATFORM_HEAP_BUFFER(mm) == Len(mm.buffer)

HeapAt(mm, ref) == mm[ref[1]][ref[2]]

SetHeap(mm, ref, heap) == [mm EXCEPT ![ref[1]][ref[2]] = heap]

NoHeap == <<"none", 0>>

in_heap(heap, ptr) == ptr >= heap.heap /\ ptr < heap.heap + heap.size

\* get_heap_from_ptr looking at the system-runtime heap of every core
get_heap_from_ptr_any_core(mm, cpu, ptr) ==
    LET sr == {i \in 1..Len(mm.system_runtime) : in_heap(mm.system_runtime[i], ptr)}
        rt == {i \in 1..PLATFORM_HEAP_RUNTIME(mm) : in_heap(mm.runtime[i], ptr)}
        bf == {i \in 1..PLATFORM_HEAP_BUFFER(mm) : in_heap(mm.buffer[i], ptr)}
    IN IF sr # {} THEN <<"system_runtime", MinOf(sr)>>
       ELSE IF rt # {} THEN <<"runtime", MinOf(rt)>>
       ELSE IF bf # {} THEN <<"buffer", MinOf(bf)>>
       ELSE NoHeap

\* the caller's system-runtime heap, then the runtime heaps, then the buffer heaps
get_heap_from_ptr(mm, cpu, ptr) ==
    LET rt == {i \in 1..PLATFORM_HEAP_RUNTIME(mm) : in_heap(mm.runtime[i], ptr)}
        bf == {i \in 1..PLATFORM_HEAP_BUFFER(mm) : in_heap(mm.buffer[i], ptr)}
    IN IF in_heap(mm.system_runtime[cpu + 1], ptr) THEN <<"system_runtime", cpu + 1>>
       ELSE IF rt # {} THEN <<"runtime", MinOf(rt)>>
       ELSE IF bf # {} THEN <<"buffer", MinOf(bf)>>
       ELSE NoHeap

\* the loop of get_heap_from_caps over heaps[from..]: the index of the first
\* heap whose caps masked with the request give the request, 0 for NULL
RECURSIVE get_heap_from_caps(_, _, _)
get_heap_from_caps(heaps, from, caps) ==
    LET mask == heaps[from].caps \cap caps
    IN IF from > Len(heaps) THEN 0
       ELSE IF mask = caps THEN from
       ELSE get_heap_from_caps(heaps, from + 1, caps)

\* the map the pointer falls in: the first whose end lies above ptr, 0 if none
map_of_ptr(heap, ptr) ==
    LET below == {i \in 1..heap.blocks :
                    ptr < heap.map[i].base + heap.map[i].block_size * heap.map[i].count}
    IN IF below = {} THEN 0 ELSE MinOf(below)

block_of_ptr(map, ptr) == (ptr - map.base) \div map.block_size

\* free_block clearing the head header only, whatever size it records
free_span_head_only(heap, level, block) ==
    LET map == heap.map[level]
        map1 == [map EXCEPT
                   !.block[block + 1] = FreeHdr,
                   !.free_count = U16(@ + 1),
                   !.first_free = IF block < @ THEN block ELSE @]
    IN [heap EXCEPT !.map[level] = map1,
                    !.info.used = U32(@ - map.block_size),
                    !.info.free = U32(@ + map.block_size)]

\* free_block moving the hint to the freed block wherever the hint was
free_span_hint_always(heap, level, block) ==
    LET map == heap.map[level]
        size == map.block[block + 1].size
        freed == {i \in block..(block + size - 1) : i < map.count}
        map1 == [map EXCEPT
                   !.block = [k \in DOMAIN map.block |->
                                IF k - 1 \in freed THEN FreeHdr ELSE map.block[k]],
                   !.free_count = U16(@ + size),
                   !.first_free = block]
    IN [heap EXCEPT !.map[level] = map1,
                    !.info.used = U32(@ - size * map.block_size),
                    !.info.free = U32(@ + size * map.block_size)]

\* free_block releasing the block it was given whatever size its header holds
free_span_at_least_one(heap, level, block) ==
    LET map == heap.map[level]
        size == IF map.block[block + 1].size = 0 THEN 1 ELSE map.block[block + 1].size
        freed == {i \in block..(block + size - 1) : i < map.count}
        map1 == [map EXCEPT
                   !.block = [k \in DOMAIN map.block |->
                                IF k - 1 \in freed THEN FreeHdr ELSE map.block[k]],
                   !.free_count = U16(@ + size),
                   !.first_free = IF block < @ THEN block ELSE @]
    IN [heap EXCEPT !.map[level] = map1,
                    !.info.used = U32(@ - size * map.block_size),
                    !.info.free = U32(@ + size * map.block_size)]

\* the "free block header and continuous blocks" loop over [block, block + size)
free_span(heap, level, block) ==
    LET map == heap.map[level]
        size == map.block[block + 1].size
        freed == {i \in block..(block + size - 1) : i < map.count}
        map1 == [map EXCEPT
                   !.block = [k \in DOMAIN map.block |->
                                IF k - 1 \in freed THEN FreeHdr ELSE map.block[k]],
                   !.free_count = U16(@ + size),
                   !.first_free = IF block < @ THEN block ELSE @]
    IN [heap EXCEPT !.map[level] = map1,
                    !.info.used = U32(@ - size * map.block_size),
                    !.info.free = U32(@ + size * map.block_size)]

\* free_block without the block boundary test
free_block_unchecked(mm, cpu, ptr) ==
    LET ref == get_heap_from_ptr(mm, cpu, ptr)
        heap == HeapAt(mm, ref)
        level == map_of_ptr(heap, ptr)
        block == block_of_ptr(heap.map[level], ptr)
    IN IF ref = NoHeap \/ level = 0 THEN [mm |-> mm, panic |-> FALSE]
       ELSE [mm |-> SetHeap(mm, ref, free_span(heap, level, block)),
             panic |-> FALSE]

\* [mm, panic]: the registry after free_block(ptr) on core cpu
free_block(mm, cpu, ptr) ==
    LET ref == get_heap_from_ptr(mm, cpu, ptr)
        heap == HeapAt(mm, ref)
        level == map_of_ptr(heap, ptr)
        map == heap.map[level]
        block == block_of_ptr(map, ptr)
    IN IF ref = NoHeap THEN [mm |-> mm, panic |-> FALSE]
       ELSE IF level = 0 THEN [mm |-> mm, panic |-> FALSE]
       ELSE IF map.base + map.block_size * block # ptr
            THEN [mm |-> mm, panic |-> TRUE]
       ELSE [mm |-> SetHeap(mm, ref, free_span(heap, level, block)),
             panic |-> FALSE]

\* _rfree_unlocked marking the trace dirty before the NULL test
rfree_unlocked_mark_first(mm, cpu, ptr0) ==
    LET ptr == IF is_uncached(ptr0) THEN uncache_to_cache(ptr0) ELSE ptr0
        r == free_block(mm, cpu, ptr)
    IN IF ptr0 = NULL THEN [mm |-> [mm EXCEPT !.heap_trace_updated = 1], panic |-> FALSE]
       ELSE IF in_heap(mm.system[cpu + 1], ptr) THEN [mm |-> mm, panic |-> TRUE]
       ELSE IF r.panic THEN r
       ELSE [mm |-> [r.mm EXCEPT !.heap_trace_updated = 1], panic |-> FALSE]

rfree_unlocked(mm, cpu, ptr0) ==
    LET ptr == IF is_uncached(ptr0) THEN uncache_to_cache(ptr0) ELSE ptr0
        r == free_block(mm, cpu, ptr)
    IN IF ptr0 = NULL THEN [mm |-> mm, panic |-> FALSE]
       ELSE IF in_heap(mm.system[cpu + 1], ptr) THEN [mm |-> mm, panic |-> TRUE]
       ELSE IF r.panic THEN r
       ELSE [mm |-> [r.mm EXCEPT !.heap_trace_updated = 1], panic |-> FALSE]

----------------------------------------------------------------------------
(* The allocation entry points without the lock.  These return             *)
(* [mm, ptr, panic, oob, flush, ref, lvl, s, n]: the registry afterwards,  *)
(* the pointer, whether panic() was called, whether a header outside its   *)
(* array was written, the heaps written back to memory, and the heap, map, *)
(* first slot and slot count handed out.                                   *)

Res(mm, ptr, ref, r) ==
    [mm |-> mm, ptr |-> ptr, panic |-> FALSE, oob |-> r.oob, flush |-> {},
     ref |-> ref, lvl |-> r.lvl, s |-> r.s, n |-> r.n]

Fail(mm) == Res(mm, NULL, NoHeap, NoBlock(0))

Panic(mm) == [Fail(mm) EXCEPT !.panic = TRUE]

\* padding that brings info.used up to the next cache line
sys_alignment(heap) ==
    IF heap.info.used % PLATFORM_DCACHE_ALIGN # 0
    THEN PLATFORM_DCACHE_ALIGN - (heap.info.used % PLATFORM_DCACHE_ALIGN)
    ELSE 0

\* rmalloc_sys leaving the descriptor of another core's heap in its own cache
rmalloc_sys_no_flush(mm, zone, caps, core, bytes, cpu) ==
    LET cpu_heap == mm.system[core + 1]
        alignment == sys_alignment(cpu_heap)
        ptr == cpu_heap.heap + cpu_heap.info.used + alignment
        heap1 == [cpu_heap EXCEPT !.info.used = U32(@ + alignment + bytes),
                                  !.info.free = U32(@ - (alignment + bytes))]
    IN IF ~(caps \subseteq cpu_heap.caps) THEN Panic(mm)
       ELSE IF U32Less(cpu_heap.info.free, alignment + bytes) THEN Panic(mm)
       ELSE [Fail(mm) EXCEPT
               !.mm = SetHeap(mm, <<"system", core + 1>>, heap1),
               !.ptr = IF zone.flag = "UNCACHED" THEN cache_to_uncache(ptr) ELSE ptr]

rmalloc_sys(mm, zone, caps, core, bytes, cpu) ==
    LET cpu_heap == mm.system[core + 1]
        alignment == sys_alignment(cpu_heap)
        ptr == cpu_heap.heap + cpu_heap.info.used + alignment
        heap1 == [cpu_heap EXCEPT !.info.used = U32(@ + alignment + bytes),
                                  !.info.free = U32(@ - (alignment + bytes))]
    IN IF ~(caps \subseteq cpu_heap.caps) THEN Panic(mm)
       ELSE IF U32Less(cpu_heap.info.free, alignment + bytes) THEN Panic(mm)
       ELSE [Fail(mm) EXCEPT
               !.mm = SetHeap(mm, <<"system", core + 1>>, heap1),
               !.ptr = IF zone.flag = "UNCACHED" THEN cache_to_uncache(ptr) ELSE ptr,
               !.flush = IF core # cpu THEN {<<"system", core + 1>>} ELSE {}]

\* rmalloc_sys_runtime without the capability test on the core's heap
rmalloc_sys_runtime_unchecked(mm, zone, caps, core, bytes, cpu) ==
    LET ref == <<"system_runtime", core + 1>>
        cpu_heap == HeapAt(mm, ref)
        r == get_ptr_from_heap(cpu_heap, zone, bytes)
    IN [Res(SetHeap(mm, ref, r.heap), r.ptr, ref, r) EXCEPT
          !.flush = IF core # cpu THEN {ref} ELSE {}]

rmalloc_sys_runtime(mm, zone, caps, core, bytes, cpu) ==
    LET ref == <<"system_runtime", core + 1>>
        cpu_heap == HeapAt(mm, ref)
        r == get_ptr_from_heap(cpu_heap, zone, bytes)
    IN IF ~(caps \subseteq cpu_heap.caps) THEN Panic(mm)
       ELSE [Res(SetHeap(mm, ref, r.heap), r.ptr, ref, r) EXCEPT
               !.flush = IF core # cpu THEN {ref} ELSE {}]

\* rmalloc_runtime going on to the buffer heaps when the runtime heap it
\* chose has no block
rmalloc_runtime_retry(mm, zone, caps, bytes) ==
    LET rt == get_heap_from_caps(mm.runtime, 1, caps)
        bf == get_heap_from_caps(mm.buffer, 1, caps)
        r1 == get_ptr_from_heap(HeapAt(mm, <<"runtime", rt>>), zone, bytes)
        ref == IF rt # 0 /\ r1.ptr # NULL THEN <<"runtime", rt>> ELSE <<"buffer", bf>>
        r == get_ptr_from_heap(HeapAt(mm, ref), zone, bytes)
    IN IF rt = 0 /\ bf = 0 THEN Fail(mm)
       ELSE IF ref = <<"buffer", 0>> THEN Fail(mm)
       ELSE Res(SetHeap(mm, ref, r.heap), r.ptr, ref, r)

rmalloc_runtime(mm, zone, caps, bytes) ==
    LET rt == get_heap_from_caps(mm.runtime, 1, caps)
        bf == get_heap_from_caps(mm.buffer, 1, caps)
        ref == IF rt # 0 THEN <<"runtime", rt>> ELSE <<"buffer", bf>>
        r == get_ptr_from_heap(HeapAt(mm, ref), zone, bytes)
    IN IF rt = 0 /\ bf = 0 THEN Fail(mm)
       ELSE Res(SetHeap(mm, ref, r.heap), r.ptr, ref, r)

malloc_unlocked(mm, zone, caps, bytes, cpu) ==
    LET r == CASE zone.type = "SYS" -> rmalloc_sys(mm, zone, caps, cpu, bytes, cpu)
               [] zone.type = "SYS_RUNTIME" ->
                      rmalloc_sys_runtime(mm, zone, caps, cpu, bytes, cpu)
               [] zone.type = "RUNTIME" -> rmalloc_runtime(mm, zone, caps, bytes)
               [] OTHER -> Panic(mm)
    IN IF r.panic THEN r ELSE [r EXCEPT !.mm.heap_trace_updated = 1]

\* _balloc_unlocked giving up when the first capable heap has nothing
balloc_from_first_only(mm, from, zone, caps, bytes) ==
    LET i == get_heap_from_caps(mm.buffer, from, caps)
        r == alloc_heap_buffer(mm.buffer[i], zone, bytes)
    IN IF from > PLATFORM_HEAP_BUFFER(mm) \/ i = 0 THEN Fail(mm)
       ELSE IF r.ptr # NULL THEN Res(SetHeap(mm, <<"buffer", i>>, r.heap), r.ptr,
                                     <<"buffer", i>>, r)
       ELSE Fail(SetHeap(mm, <<"buffer", i>>, r.heap))

\* the heap loop of _balloc_unlocked, from buffer heap index `from`
RECURSIVE balloc_from(_, _, _, _, _)
balloc_from(mm, from, zone, caps, bytes) ==
    LET i == get_heap_from_caps(mm.buffer, from, caps)
        r == alloc_heap_buffer(mm.buffer[i], zone, bytes)
    IN IF from > PLATFORM_HEAP_BUFFER(mm) \/ i = 0 THEN Fail(mm)
       ELSE IF r.ptr # NULL THEN Res(SetHeap(mm, <<"buffer", i>>, r.heap), r.ptr,
                                     <<"buffer", i>>, r)
       ELSE balloc_from(SetHeap(mm, <<"buffer", i>>, r.heap), i + 1, zone, caps, bytes)

balloc_unlocked(mm, zone, caps, bytes) == balloc_from(mm, 1, zone, caps, bytes)

\* rzalloc_core_sys between lock and unlock
rzalloc_core_sys_unlocked(mm, core, bytes, cpu) ==
    rmalloc_sys(mm, [type |-> "SYS", flag |-> "CACHED"], {}, core, bytes, cpu)

\* the reallocation freeing the old pointer whether or not the new allocation
\* succeeded
realloc_finish_always_free(r, cpu, ptr) ==
    LET f == rfree_unlocked(r.mm, cpu, ptr)
    IN IF r.panic THEN r
       ELSE [r EXCEPT !.mm = f.mm, !.panic = f.panic]

\* _realloc and _brealloc between lock and unlock: allocate, then free the old
\* pointer when the allocation succeeded
realloc_finish(r, cpu, ptr) ==
    LET f == rfree_unlocked(r.mm, cpu, ptr)
    IN IF r.panic \/ r.ptr = NULL THEN r
       ELSE [r EXCEPT !.mm = f.mm, !.panic = f.panic]

realloc_unlocked(mm, ptr, zone, caps, bytes, cpu) ==
    realloc_finish(malloc_unlocked(mm, zone, caps, bytes, cpu), cpu, ptr)

brealloc_unlocked(mm, ptr, zone, caps, bytes, cpu) ==
    realloc_finish(balloc_unlocked(mm, zone, caps, bytes), cpu, ptr)

\* free_heap without the test for the master core
free_heap_any_core(mm, zone, cpu) ==
    IF zone.type # "SYS" \/ zone.flag # "CACHED"
    THEN [mm |-> mm, panic |-> TRUE]
    ELSE [mm |-> [mm EXCEPT !.system[cpu + 1].info.used = 0,
                            !.system[cpu + 1].info.free = mm.system[cpu + 1].size],
          panic |-> FALSE]

\* free_heap: [mm, panic]
free_heap(mm, zone, cpu) ==
    IF cpu = PLATFORM_MASTER_CORE_ID \/ zone.type # "SYS" \/ zone.flag # "CACHED"
    THEN [mm |-> mm, panic |-> TRUE]
    ELSE [mm |-> [mm EXCEPT !.system[cpu + 1].info.used = 0,
                            !.system[cpu + 1].info.free = mm.system[cpu + 1].size],
          panic |-> FALSE]

heap_trace_all(mm) == [mm EXCEPT !.heap_trace_updated = 0]

----------------------------------------------------------------------------
(* Layouts and inputs                                                      *)

\* a heap class that plays no part in a layout: no storage behind it
NoSysHeap(base) == SysHeap(base, 0, {"RAM"})

NoBlockHeap(base) == BlockHeap(base, {"RAM"}, <<>>)

\* one buffer heap with a single map of four blocks (spans up to the whole map)
LayoutSpan ==
    [system |-> <<NoSysHeap(10), NoSysHeap(20)>>,
     system_runtime |-> <<NoBlockHeap(30), NoBlockHeap(40)>>,
     runtime |-> <<NoBlockHeap(50)>>,
     buffer |-> <<BlockHeap(60, {"RAM", "DMA"}, <<BlockDef(2, 4)>>)>>,
     heap_trace_updated |-> 0]

\* two buffer heaps with different capabilities, one of them with two maps
LayoutCaps ==
    [system |-> <<NoSysHeap(10), NoSysHeap(20)>>,
     system_runtime |-> <<NoBlockHeap(30), NoBlockHeap(40)>>,
     runtime |-> <<NoBlockHeap(50)>>,
     buffer |-> <<BlockHeap(60, {"RAM"}, <<BlockDef(1, 2), BlockDef(2, 1)>>),
                  BlockHeap(70, {"RAM", "DMA"}, <<BlockDef(2, 2)>>)>>,
     heap_trace_updated |-> 0]

\* per-core system-runtime heaps and a runtime heap with two maps
LayoutRuntime ==
    [system |-> <<NoSysHeap(10), NoSysHeap(20)>>,
     system_runtime |-> <<BlockHeap(30, {"RAM"}, <<BlockDef(2, 2)>>),
                          BlockHeap(40, {"RAM"}, <<BlockDef(2, 1)>>)>>,
     runtime |-> <<BlockHeap(50, {"RAM"}, <<BlockDef(1, 1), BlockDef(2, 1)>>)>>,
     buffer |-> <<NoBlockHeap(60)>>,
     heap_trace_updated |-> 0]

\* per-core system heaps of two cache lines
LayoutSys ==
    [system |-> <<SysHeap(10, 4, {"RAM"}), SysHeap(20, 4, {"RAM"})>>,
     system_runtime |-> <<NoBlockHeap(30), NoBlockHeap(40)>>,
     runtime |-> <<NoBlockHeap(50)>>,
     buffer |-> <<SlackHeap(60, {"RAM"}, <<BlockDef(2, 1)>>, 2)>>,
     heap_trace_updated |-> 0]

Layouts == {LayoutSpan, LayoutCaps, LayoutRuntime, LayoutSys}

CoreIds == {0, 1}

Zone(type, flag) == [type |-> type, flag |-> flag]

\* the three zone types of _malloc and one it does not know
ZoneInputs ==
    {Zone("SYS", "CACHED"), Zone("SYS_RUNTIME", "CACHED"),
     Zone("RUNTIME", "CACHED"), Zone("BUFFER", "CACHED")}

ReallocZoneInputs ==
    {Zone("SYS_RUNTIME", "CACHED"), Zone("RUNTIME", "CACHED")}

BufferZoneInputs ==
    {Zone("BUFFER", "CACHED")}

FreeHeapZoneInputs ==
    {Zone("SYS", "CACHED"), Zone("RUNTIME", "CACHED")}

\* no capability, one only some heaps have, one no heap has
CapsInputs == {{}, {"DMA"}, {"HP"}}

ReallocCapsInputs == {{}, {"DMA"}}

\* requests that fit one block of the largest block size, and one above
BlockBytesInputs == 1..MaxBlockBytes

\* sizes given to the system heaps, the largest size_t among them
SysBytesInputs == BlockBytesInputs \cup {SIZE_MAX}

BytesInputs == 1..MaxBytes

\* addresses below, inside, between and above the heaps of the layouts, and
\* the uncached aliases of some
PtrInputs == (1..MaxPtr) \cup {cache_to_uncache(p) : p \in 10..MaxAliased}

----------------------------------------------------------------------------
(* Bookkeeping shared by the actions                                       *)

\* a header record stored outside a header array lands nowhere in the
\* registry or on any of its headers
NoHdr == <<NoHeap, 0, 0>>

HdrRefs(mm) ==
    {<<ref, lvl, k>> \in
        ({"system_runtime", "runtime", "buffer"} \X (1..2)) \X (1..2) \X (0..3) :
        /\ ref[2] <= Len(mm[ref[1]])
        /\ lvl <= mm[ref[1]][ref[2]].blocks
        /\ k < mm[ref[1]][ref[2]].map[lvl].count}

WildTargets(mm) == {NoHdr} \cup HdrRefs(mm)

wild_write(mm, w) ==
    IF w = NoHdr THEN mm
    ELSE [mm EXCEPT ![w[1][1]][w[1][2]].map[w[2]].block[w[3] + 1] =
                        [size |-> 1, used |-> 1]]

BlockHeapRefs(mm) ==
    {ref \in {"system_runtime", "runtime", "buffer"} \X (1..2) :
        ref[2] <= Len(mm[ref[1]])}

AllHeapRefs(mm) ==
    BlockHeapRefs(mm) \cup {<<"system", c + 1>> : c \in Cores(mm)}

\* wrapped counters are followed MaxWrap below zero and above count
WrapOK(mm) ==
    \A ref \in BlockHeapRefs(mm) :
        \A lvl \in 1..HeapAt(mm, ref).blocks :
            LET map == HeapAt(mm, ref).map[lvl]
            IN \/ map.free_count <= map.count + MaxWrap
               \/ map.free_count >= 65536 - MaxWrap

LiveRec(r) == [ptr |-> r.ptr, ref |-> r.ref, lvl |-> r.lvl, s |-> r.s, n |-> r.n]

Tracked(r) == r.ptr # NULL /\ r.ref # NoHeap

\* the registry and the outstanding allocations after a step returned r
Effect(r, added, removed) ==
    /\ WrapOK(r.mm)
    /\ BagCardinality((live (-) removed) (+) added) <= MaxLive
    /\ \E w \in (IF r.oob THEN WildTargets(r.mm) ELSE {NoHdr}) :
          memmap' = wild_write(r.mm, w)
    /\ live' = (live (-) removed) (+) added
    /\ panicked' = r.panic
    /\ ub' = (ub \/ r.oob)
    /\ flushed' = r.flush

\* the state after an entry point taken as one step returned r
Commit(r, added, removed) ==
    /\ Effect(r, added, removed)
    /\ UNCHANGED <<lock, pc, call>>

Added(r) == IF Tracked(r) THEN SetToBag({LiveRec(r)}) ELSE EmptyBag

NoRec == [ptr |-> NULL, ref |-> NoHeap, lvl |-> 0, s |-> 0, n |-> 0]

\* a core outside the allocator
NoCall ==
    [op |-> "none", zone |-> Zone("SYS", "CACHED"), caps |-> {}, bytes |-> 0,
     core |-> 0, old |-> NoRec, new |-> NoRec]

----------------------------------------------------------------------------
(* Entry points, each taken as one step (the lock is held for the body)    *)

Init ==
    /\ memmap \in {init_heap(L) : L \in Layouts}
    /\ lock = NoCore
    /\ pc = [c \in CoreIds |-> 0]
    /\ call = [c \in CoreIds |-> NoCall]
    /\ live = EmptyBag
    /\ panicked = FALSE
    /\ ub = FALSE
    /\ flushed = {}

Malloc(cpu, zone, caps, bytes) ==
    /\ ~panicked /\ ~ub
    /\ LET r == malloc_unlocked(memmap, zone, caps, bytes, cpu)
       IN Commit(r, Added(r), EmptyBag)

Zalloc(cpu, zone, caps, bytes) ==
    /\ ~panicked /\ ~ub
    /\ LET r == malloc_unlocked(memmap, zone, caps, bytes, cpu)
       IN Commit(r, Added(r), EmptyBag)

RzallocCoreSys(cpu, core, bytes) ==
    /\ ~panicked /\ ~ub
    /\ Commit(rzalloc_core_sys_unlocked(memmap, core, bytes, cpu), EmptyBag, EmptyBag)

Balloc(zone, caps, bytes) ==
    /\ ~panicked /\ ~ub
    /\ LET r == balloc_unlocked(memmap, zone, caps, bytes)
       IN Commit(r, Added(r), EmptyBag)

\* rfree of an outstanding pointer
Rfree(cpu, rec) ==
    /\ ~panicked /\ ~ub
    /\ LET f == rfree_unlocked(memmap, cpu, rec.ptr)
       IN Commit([Fail(f.mm) EXCEPT !.panic = f.panic], EmptyBag, SetToBag({rec}))

\* rfree(NULL)
RfreeNull(cpu) ==
    /\ ~panicked /\ ~ub
    /\ LET f == rfree_unlocked(memmap, cpu, NULL)
       IN Commit([Fail(f.mm) EXCEPT !.panic = f.panic], EmptyBag, EmptyBag)

\* ptr is the address of a block of a map the caller's rfree resolves
BlockAddress(mm, cpu, ptr) ==
    LET ref == get_heap_from_ptr(mm, cpu, ptr)
        heap == HeapAt(mm, ref)
        level == map_of_ptr(heap, ptr)
    IN /\ ref # NoHeap
       /\ level # 0
       /\ (ptr - heap.map[level].base) % heap.map[level].block_size = 0

\* rfree of a pointer that is no block address: into a system heap, into
\* the middle of a block, into no heap at all
RfreeStray(cpu, ptr) ==
    /\ ~panicked /\ ~ub
    /\ ~BlockAddress(memmap, cpu, CachedPtr(ptr))
    /\ LET f == rfree_unlocked(memmap, cpu, ptr)
       IN Commit([Fail(f.mm) EXCEPT !.panic = f.panic], EmptyBag, EmptyBag)

\* the old pointer is given up only when the reallocation succeeded
Realloc(cpu, rec, zone, caps, bytes) ==
    /\ ~panicked /\ ~ub
    /\ LET r == IF bytes = 0 THEN Fail(memmap)
                ELSE realloc_unlocked(memmap, rec.ptr, zone, caps, bytes, cpu)
       IN Commit(r, Added(r), IF r.ptr # NULL THEN SetToBag({rec}) ELSE EmptyBag)

Brealloc(cpu, rec, zone, caps, bytes) ==
    /\ ~panicked /\ ~ub
    /\ LET r == IF bytes = 0 THEN Fail(memmap)
                ELSE brealloc_unlocked(memmap, rec.ptr, zone, caps, bytes, cpu)
       IN Commit(r, Added(r), IF r.ptr # NULL THEN SetToBag({rec}) ELSE EmptyBag)

FreeHeap(cpu, zone) ==
    /\ ~panicked /\ ~ub
    /\ LET f == free_heap(memmap, zone, cpu)
       IN Commit([Fail(f.mm) EXCEPT !.panic = f.panic], EmptyBag, EmptyBag)

Next ==
    \/ \E cpu \in CoreIds, zone \in ZoneInputs, caps \in CapsInputs,
          bytes \in BlockBytesInputs :
          Malloc(cpu, zone, caps, bytes)
    \/ \E cpu \in CoreIds, zone \in ReallocZoneInputs, caps \in ReallocCapsInputs,
          bytes \in BlockBytesInputs :
          Zalloc(cpu, zone, caps, bytes)
    \/ \E cpu \in CoreIds, core \in CoreIds, bytes \in SysBytesInputs :
          RzallocCoreSys(cpu, core, bytes)
    \/ \E zone \in BufferZoneInputs, caps \in CapsInputs, bytes \in BytesInputs :
          Balloc(zone, caps, bytes)
    \/ \E cpu \in CoreIds, rec \in BagToSet(live) : Rfree(cpu, rec)
    \/ \E cpu \in CoreIds : RfreeNull(cpu)
    \/ \E cpu \in CoreIds, ptr \in PtrInputs : RfreeStray(cpu, ptr)
    \/ \E cpu \in CoreIds, rec \in BagToSet(live), zone \in ReallocZoneInputs,
          caps \in ReallocCapsInputs, bytes \in 0..MaxBlockBytes :
          Realloc(cpu, rec, zone, caps, bytes)
    \/ \E cpu \in CoreIds, rec \in BagToSet(live), zone \in BufferZoneInputs,
          caps \in ReallocCapsInputs, bytes \in 0..MaxBytes :
          Brealloc(cpu, rec, zone, caps, bytes)
    \/ \E cpu \in CoreIds, zone \in FreeHeapZoneInputs : FreeHeap(cpu, zone)

Spec == Init /\ [][Next]_vars

----------------------------------------------------------------------------
(* The locked entry points step by step, one program counter per core.     *)
(* spin_lock_irq waits until memmap.lock is free and takes it;             *)
(* spin_unlock_irq gives it up.  Nothing else looks at the lock.           *)

\* all four heap classes in use: what two cores can contend for
LayoutCores ==
    [system |-> <<SysHeap(10, 2, {"RAM"}), SysHeap(20, 2, {"RAM"})>>,
     system_runtime |-> <<NoBlockHeap(30), NoBlockHeap(40)>>,
     runtime |-> <<BlockHeap(50, {"RAM"}, <<BlockDef(2, 1)>>)>>,
     buffer |-> <<BlockHeap(60, {"RAM"}, <<BlockDef(2, 2)>>)>>,
     heap_trace_updated |-> 0]

\* the entry points with the reallocations not testing bytes
EntrySteps_realloc_unchecked(op) ==
    CASE op = "_malloc" -> <<"spin_lock", "alloc", "spin_unlock">>
      [] op = "_zalloc" -> <<"spin_lock", "alloc", "spin_unlock", "bzero">>
      [] op = "rzalloc_core_sys" -> <<"spin_lock", "alloc", "spin_unlock">>
      [] op = "_balloc" -> <<"spin_lock", "alloc", "spin_unlock">>
      [] op = "rfree" -> <<"spin_lock", "free", "spin_unlock">>
      [] op = "_realloc" -> <<"spin_lock", "alloc", "free", "spin_unlock">>
      [] op = "_brealloc" -> <<"spin_lock", "alloc", "free", "spin_unlock">>
      [] op = "free_heap" -> <<"reset_check", "reset_used", "reset_free">>
      [] OTHER -> <<>>

\* the entry points with rfree calling _rfree_unlocked without the lock
EntrySteps_rfree_unlocked(op) ==
    CASE op = "_malloc" -> <<"spin_lock", "alloc", "spin_unlock">>
      [] op = "_zalloc" -> <<"spin_lock", "alloc", "spin_unlock", "bzero">>
      [] op = "rzalloc_core_sys" -> <<"spin_lock", "alloc", "spin_unlock">>
      [] op = "_balloc" -> <<"spin_lock", "alloc", "spin_unlock">>
      [] op = "rfree" -> <<"free">>
      [] op = "_realloc" -> <<"check", "spin_lock", "alloc", "free", "spin_unlock">>
      [] op = "_brealloc" -> <<"check", "spin_lock", "alloc", "free", "spin_unlock">>
      [] op = "free_heap" -> <<"reset_check", "reset_used", "reset_free">>
      [] OTHER -> <<>>

\* the entry points with rfree returning without spin_unlock_irq
EntrySteps_rfree_keeps_lock(op) ==
    CASE op = "_malloc" -> <<"spin_lock", "alloc", "spin_unlock">>
      [] op = "_zalloc" -> <<"spin_lock", "alloc", "spin_unlock", "bzero">>
      [] op = "rzalloc_core_sys" -> <<"spin_lock", "alloc", "spin_unlock">>
      [] op = "_balloc" -> <<"spin_lock", "alloc", "spin_unlock">>
      [] op = "rfree" -> <<"spin_lock", "free">>
      [] op = "_realloc" -> <<"check", "spin_lock", "alloc", "free", "spin_unlock">>
      [] op = "_brealloc" -> <<"check", "spin_lock", "alloc", "free", "spin_unlock">>
      [] op = "free_heap" -> <<"reset_check", "reset_used", "reset_free">>
      [] OTHER -> <<>>

\* the entry points with _realloc calling the locked _malloc and rfree
EntrySteps_realloc_nested(op) ==
    CASE op = "_malloc" -> <<"spin_lock", "alloc", "spin_unlock">>
      [] op = "_zalloc" -> <<"spin_lock", "alloc", "spin_unlock", "bzero">>
      [] op = "rzalloc_core_sys" -> <<"spin_lock", "alloc", "spin_unlock">>
      [] op = "_balloc" -> <<"spin_lock", "alloc", "spin_unlock">>
      [] op = "rfree" -> <<"spin_lock", "free", "spin_unlock">>
      [] op = "_realloc" -> <<"check", "spin_lock", "spin_lock", "alloc", "spin_unlock",
                              "spin_lock", "free", "spin_unlock", "spin_unlock">>
      [] op = "_brealloc" -> <<"check", "spin_lock", "alloc", "free", "spin_unlock">>
      [] op = "free_heap" -> <<"reset_check", "reset_used", "reset_free">>
      [] OTHER -> <<>>

\* the steps of each entry point in program order
EntrySteps(op) ==
    CASE op = "_malloc" -> <<"spin_lock", "alloc", "spin_unlock">>
      [] op = "_zalloc" -> <<"spin_lock", "alloc", "spin_unlock", "bzero">>
      [] op = "rzalloc_core_sys" -> <<"spin_lock", "alloc", "spin_unlock">>
      [] op = "_balloc" -> <<"spin_lock", "alloc", "spin_unlock">>
      [] op = "rfree" -> <<"spin_lock", "free", "spin_unlock">>
      [] op = "_realloc" -> <<"check", "spin_lock", "alloc", "free", "spin_unlock">>
      [] op = "_brealloc" -> <<"check", "spin_lock", "alloc", "free", "spin_unlock">>
      [] op = "free_heap" -> <<"reset_check", "reset_used", "reset_free">>
      [] OTHER -> <<>>

\* the step core c is about to take
Step(c) == IF pc[c] = 0 THEN "none" ELSE EntrySteps(call[c].op)[pc[c]]

\* spin_lock_irq returns once the lock is free
spin_lock_free(l) == l = NoCore

CallOf(op, zone, caps, bytes, core, old) ==
    [op |-> op, zone |-> zone, caps |-> caps, bytes |-> bytes, core |-> core,
     old |-> old, new |-> NoRec]

\* the calls a core can make: allocations by zone, and rfree / realloc of
\* a pointer it was given
CallInputs ==
    {CallOf(op, Zone("RUNTIME", "CACHED"), {}, 2, 0, NoRec) :
        op \in {"_malloc", "_zalloc"}}
    \cup {CallOf("rzalloc_core_sys", Zone("SYS", "CACHED"), {}, 2, core, NoRec) :
            core \in CoreIds}
    \cup {CallOf("_balloc", Zone("BUFFER", "CACHED"), {}, bytes, 0, NoRec) :
            bytes \in {2}}
    \cup {CallOf("rfree", Zone("SYS", "CACHED"), {}, 0, 0, old) :
            old \in BagToSet(live) \cup {NoRec}}
    \cup {CallOf("_realloc", Zone("RUNTIME", "CACHED"), {}, bytes, 0, old) :
            bytes \in {0, 2}, old \in BagToSet(live)}
    \cup {CallOf("_brealloc", Zone("BUFFER", "CACHED"), {}, bytes, 0, old) :
            bytes \in {0, 4}, old \in BagToSet(live)}
    \cup {CallOf(op, Zone("RUNTIME", "CACHED"), {}, 0, 0, NoRec) :
            op \in {"_realloc", "_brealloc"}}

\* the pointer a call hands back to its caller unfreed
Back(old) == IF old = NoRec THEN EmptyBag ELSE SetToBag({old})

\* pointers passed to a call in progress
Held == {c \in CoreIds : call[c].old # NoRec}

Advance(c, cl) ==
    LET last == pc[c] = Len(EntrySteps(cl.op))
    IN /\ pc' = [pc EXCEPT ![c] = IF last THEN 0 ELSE @ + 1]
       /\ call' = [call EXCEPT ![c] = IF last THEN NoCall ELSE cl]

InitCores ==
    /\ memmap = init_heap(LayoutCores)
    /\ lock = NoCore
    /\ pc = [c \in CoreIds |-> 0]
    /\ call = [c \in CoreIds |-> NoCall]
    /\ live = EmptyBag
    /\ panicked = FALSE
    /\ ub = FALSE
    /\ flushed = {}

\* core c calls an entry point; a pointer it passes is its own
Enter(c, cl) ==
    /\ ~panicked /\ ~ub
    /\ pc[c] = 0
    /\ pc' = [pc EXCEPT ![c] = 1]
    /\ call' = [call EXCEPT ![c] = cl]
    /\ live' = IF cl.old = NoRec THEN live ELSE live (-) SetToBag({cl.old})
    /\ UNCHANGED <<memmap, lock, panicked, ub, flushed>>

\* if (!bytes) return new_ptr;
CheckBytes(c) ==
    /\ ~panicked /\ ~ub
    /\ Step(c) = "check"
    /\ IF call[c].bytes = 0
       THEN /\ pc' = [pc EXCEPT ![c] = 0]
            /\ call' = [call EXCEPT ![c] = NoCall]
            /\ live' = live (+) Back(call[c].old)
       ELSE /\ Advance(c, call[c])
            /\ live' = live
    /\ UNCHANGED <<memmap, lock, panicked, ub, flushed>>

SpinLock(c) ==
    /\ ~panicked /\ ~ub
    /\ Step(c) = "spin_lock"
    /\ spin_lock_free(lock)
    /\ lock' = c
    /\ Advance(c, call[c])
    /\ UNCHANGED <<memmap, live, panicked, ub, flushed>>

\* _malloc_unlocked, _balloc_unlocked or rmalloc_sys, by entry point
AllocStep(c) ==
    /\ ~panicked /\ ~ub
    /\ Step(c) = "alloc"
    /\ LET cl == call[c]
           r == CASE cl.op \in {"_malloc", "_zalloc", "_realloc"} ->
                        malloc_unlocked(memmap, cl.zone, cl.caps, cl.bytes, c)
                  [] cl.op \in {"_balloc", "_brealloc"} ->
                        balloc_unlocked(memmap, cl.zone, cl.caps, cl.bytes)
                  [] OTHER ->
                        rzalloc_core_sys_unlocked(memmap, cl.core, cl.bytes, c)
       IN /\ BagCardinality(live (+) Added(r)) + Cardinality(Held) <= MaxLive
          /\ Effect(r, Added(r), EmptyBag)
          /\ Advance(c, [cl EXCEPT !.new = LiveRec(r)])
    /\ UNCHANGED lock

\* _rfree_unlocked(ptr); in the reallocations only if (new_ptr)
FreeStep(c) ==
    /\ ~panicked /\ ~ub
    /\ Step(c) = "free"
    /\ LET cl == call[c]
           f == rfree_unlocked(memmap, c, cl.old.ptr)
       IN IF cl.op = "rfree" \/ cl.new.ptr # NULL
          THEN Effect([Fail(f.mm) EXCEPT !.panic = f.panic], EmptyBag, EmptyBag)
          ELSE /\ live' = live (+) Back(cl.old)
               /\ UNCHANGED <<memmap, panicked, ub, flushed>>
    /\ Advance(c, call[c])
    /\ UNCHANGED lock

SpinUnlock(c) ==
    /\ ~panicked /\ ~ub
    /\ Step(c) = "spin_unlock"
    /\ lock' = NoCore
    /\ Advance(c, call[c])
    /\ UNCHANGED <<memmap, live, panicked, ub, flushed>>

\* _zalloc clears the memory it was given after _malloc returned
Bzero(c) ==
    /\ ~panicked /\ ~ub
    /\ Step(c) = "bzero"
    /\ Advance(c, call[c])
    /\ UNCHANGED <<memmap, lock, live, panicked, ub, flushed>>

NextCores ==
    \/ \E c \in CoreIds, cl \in CallInputs : Enter(c, cl)
    \/ \E c \in CoreIds : CheckBytes(c)
    \/ \E c \in CoreIds : SpinLock(c)
    \/ \E c \in CoreIds : AllocStep(c)
    \/ \E c \in CoreIds : FreeStep(c)
    \/ \E c \in CoreIds : SpinUnlock(c)
    \/ \E c \in CoreIds : Bzero(c)

SpecCores == InitCores /\ [][NextCores]_vars

----------------------------------------------------------------------------
(* free_heap statement by statement, next to the locked system-heap        *)
(* allocations of the other cores.                                         *)

ResetCallInputs ==
    {CallOf("rzalloc_core_sys", Zone("SYS", "CACHED"), {}, bytes, core, NoRec) :
        bytes \in {1, 2}, core \in CoreIds}
    \cup {CallOf("free_heap", zone, {}, 0, 0, NoRec) : zone \in FreeHeapZoneInputs}

InitReset ==
    /\ memmap = init_heap(LayoutSys)
    /\ lock = NoCore
    /\ pc = [c \in CoreIds |-> 0]
    /\ call = [c \in CoreIds |-> NoCall]
    /\ live = EmptyBag
    /\ panicked = FALSE
    /\ ub = FALSE
    /\ flushed = {}

\* if (cpu_get_id() == PLATFORM_MASTER_CORE_ID || zone != RZONE_SYS) panic
ResetCheck(c) ==
    /\ ~panicked /\ ~ub
    /\ Step(c) = "reset_check"
    /\ panicked' = free_heap(memmap, call[c].zone, c).panic
    /\ Advance(c, call[c])
    /\ UNCHANGED <<memmap, lock, live, ub, flushed>>

\* cpu_heap->info.used = 0;
ResetUsed(c) ==
    /\ ~panicked /\ ~ub
    /\ Step(c) = "reset_used"
    /\ memmap' = [memmap EXCEPT !.system[c + 1].info.used = 0]
    /\ Advance(c, call[c])
    /\ UNCHANGED <<lock, live, panicked, ub, flushed>>

\* cpu_heap->info.free = cpu_heap->size; and the write-back
ResetFree(c) ==
    /\ ~panicked /\ ~ub
    /\ Step(c) = "reset_free"
    /\ memmap' = [memmap EXCEPT
                    !.system[c + 1].info.free = memmap.system[c + 1].size]
    /\ flushed' = {<<"system", c + 1>>}
    /\ Advance(c, call[c])
    /\ UNCHANGED <<lock, live, panicked, ub>>

NextReset ==
    \/ \E c \in CoreIds, cl \in ResetCallInputs : Enter(c, cl)
    \/ \E c \in CoreIds : SpinLock(c)
    \/ \E c \in CoreIds : AllocStep(c)
    \/ \E c \in CoreIds : SpinUnlock(c)
    \/ \E c \in CoreIds : ResetCheck(c)
    \/ \E c \in CoreIds : ResetUsed(c)
    \/ \E c \in CoreIds : ResetFree(c)

SpecReset == InitReset /\ [][NextReset]_vars

----------------------------------------------------------------------------
(* Views of the registry used by the properties                            *)

MapRefs(mm) ==
    {<<ref, lvl>> \in BlockHeapRefs(mm) \X (1..2) : lvl <= HeapAt(mm, ref).blocks}

MapAt(mm, mr) == HeapAt(mm, mr[1]).map[mr[2]]

Unused(map) == {k \in 0..(map.count - 1) : map.block[k + 1].used = 0}

\* slots an outstanding allocation was given
Slots(rec) == {<<rec.ref, rec.lvl, k>> : k \in rec.s..(rec.s + rec.n - 1)}

\* ceil(bytes / block_size), computed without span_count
CeilBlocks(bytes, block_size) == (bytes + block_size - 1) \div block_size

\* the buffer requests some entry point can make in this state
BallocCases == BufferZoneInputs \X CapsInputs \X BytesInputs

BallocOf(c) == balloc_unlocked(memmap, c[1], c[2], c[3])

IsSpan(r) == r.ptr # NULL /\ r.n >= 2

\* the single-block requests of _malloc (system-runtime and runtime zones)
MallocCases == CoreIds \X ReallocZoneInputs \X CapsInputs \X BlockBytesInputs

MallocOf(c) == malloc_unlocked(memmap, c[2], c[3], c[4], c[1])

IsSingle(r) == r.ptr # NULL /\ ~r.panic /\ r.n = 1 /\ r.ref # NoHeap

----------------------------------------------------------------------------
(* C1: no block slot belongs to two outstanding allocations, and no        *)
(* address is outstanding twice.                                           *)
C1_NoSharedSlot ==
    \A a \in BagToSet(live) :
        /\ CopiesIn(a, live) = 1
        /\ \A b \in BagToSet(live) :
              a # b => CachedPtr(a.ptr) # CachedPtr(b.ptr) /\ Slots(a) \cap Slots(b) = {}

(* C2: every block map's free_count is the number of its unused headers.   *)
C2_FreeCountExact ==
    \A mr \in MapRefs(memmap) :
        MapAt(memmap, mr).free_count = Cardinality(Unused(MapAt(memmap, mr)))

(* C3: in every heap of every class info.used + info.free equals size,     *)
(* the counters read as the unsigned numbers they hold.                    *)
C3_UsedPlusFree ==
    \A ref \in AllHeapRefs(memmap) :
        LET heap == HeapAt(memmap, ref)
        IN /\ U32Plain(heap.info.used)
           /\ U32Plain(heap.info.free)
           /\ heap.info.used + heap.info.free = heap.size

(* C4: a map with free_count > 0 has first_free < count and the header at  *)
(* first_free unused, so alloc_block takes an unused slot.                 *)
C4_FirstFreeUnused ==
    \A mr \in MapRefs(memmap) :
        LET map == MapAt(memmap, mr)
        IN map.free_count > 0 =>
              /\ map.first_free < map.count
              /\ map.block[map.first_free + 1].used = 0

(* C5: first_free is at most the lowest index of an unused header.         *)
C5_HintBelowLowestFree ==
    \A mr \in MapRefs(memmap) :
        LET map == MapAt(memmap, mr)
        IN \A k \in Unused(map) : map.first_free <= k

(* C6: a pointer returned by a single-block allocation is                  *)
(* map.base + k * block_size for some 0 <= k < map.count.                  *)
C6_SlotInsideMap ==
    \A rec \in BagToSet(live) :
        rec.n = 1 =>
            LET map == MapAt(memmap, <<rec.ref, rec.lvl>>)
            IN \E k \in 0..(map.count - 1) :
                  CachedPtr(rec.ptr) = map.base + k * map.block_size

(* C7: a successful span allocation of `bytes` starting at s = first_free  *)
(* marks the headers [s, s + count) used, count = ceil(bytes/block_size),  *)
(* records size = count at s, takes count off free_count, moves            *)
(* first_free to s + count and returns base + s * block_size.              *)
C7_SpanEffect ==
    \A c \in BallocCases :
        LET r == BallocOf(c)
            old == MapAt(memmap, <<r.ref, r.lvl>>)
            new == MapAt(r.mm, <<r.ref, r.lvl>>)
            count == CeilBlocks(c[3], old.block_size)
            s == old.first_free
        IN IsSpan(r) =>
              /\ \A k \in s..(s + count - 1) : new.block[k + 1].used = 1
              /\ new.block[s + 1].size = count
              /\ new.free_count = old.free_count - count
              /\ new.first_free = s + count
              /\ r.ptr = old.base + s * old.block_size

(* C8: a successful span allocation followed at once by rfree of the       *)
(* returned pointer leaves the span's headers with used = 0 and size = 0   *)
(* and free_count, info.used and info.free as before the allocation.       *)
C8_SpanAllocFree ==
    \A c \in BallocCases, cpu \in CoreIds :
        LET r == BallocOf(c)
            f == rfree_unlocked(r.mm, cpu, r.ptr)
            old == HeapAt(memmap, r.ref)
            new == HeapAt(f.mm, r.ref)
            count == CeilBlocks(c[3], old.map[r.lvl].block_size)
            s == old.map[r.lvl].first_free
        IN IsSpan(r) =>
              /\ ~f.panic
              /\ \A k \in s..(s + count - 1) : new.map[r.lvl].block[k + 1] = FreeHdr
              /\ new.map[r.lvl].free_count = old.map[r.lvl].free_count
              /\ new.info = old.info

\* a span allocation is possible at a slot other than 0 and its free acts
C8_Witness ==
    \E c \in BallocCases :
        LET r == BallocOf(c)
        IN /\ IsSpan(r)
           /\ r.s > 0
           /\ rfree_unlocked(r.mm, 0, r.ptr).mm # r.mm
           /\ live # EmptyBag

\* free_count and info of the heap r came from, after rfree of r.ptr
SingleRestored(r, cpu) ==
    LET f == rfree_unlocked(r.mm, cpu, r.ptr)
        old == HeapAt(memmap, r.ref)
        new == HeapAt(f.mm, r.ref)
    IN IsSingle(r) =>
          /\ ~f.panic
          /\ new.info = old.info
          /\ new.map[r.lvl].free_count = old.map[r.lvl].free_count

(* C9: a successful single-block allocation followed at once by rfree of   *)
(* the returned pointer (on the allocating core) leaves info.used,         *)
(* info.free and the map's free_count as before the allocation.            *)
C9_SingleAllocFree ==
    /\ \A c \in MallocCases : SingleRestored(MallocOf(c), c[1])
    /\ \A c \in BallocCases, cpu \in CoreIds : SingleRestored(BallocOf(c), cpu)

\* core c is between its spin_lock_irq and its spin_unlock_irq
Holding(c) ==
    /\ pc[c] > 0
    /\ \E i \in 1..(pc[c] - 1) : EntrySteps(call[c].op)[i] = "spin_lock"
    /\ \E j \in pc[c]..Len(EntrySteps(call[c].op)) :
          EntrySteps(call[c].op)[j] = "spin_unlock"

C10_Exclusive ==
    /\ Cardinality({c \in CoreIds : Holding(c)}) <= 1
    /\ \A c \in CoreIds : Step(c) \in {"alloc", "free"} => lock = c /\ Holding(c)

C10_HolderOnly ==
    /\ memmap' # memmap =>
          \E c \in CoreIds : lock = c /\ Holding(c) /\ pc'[c] # pc[c]
    /\ \A c \in CoreIds :
          Holding(c) /\ pc'[c] = pc[c] => memmap' = memmap

(* C10: with several cores inside _malloc, _zalloc, rzalloc_core_sys,      *)
(* _balloc, rfree, _realloc and _brealloc, at most one core is between     *)
(* spin_lock_irq and spin_unlock_irq; a core reads or writes the registry  *)
(* only while it holds memmap.lock; and the registry changes only by a     *)
(* step of the holder, so no other call acts inside a call's effect.       *)
C10_LockedRegistry == [](C10_Exclusive) /\ [][C10_HolderOnly]_vars

\* one core is inside its critical section, about to free, after having
\* changed the registry, while the other core spins on the lock
C10_Witness ==
    \E c \in CoreIds, d \in CoreIds :
        /\ c # d
        /\ Step(c) = "free"
        /\ call[c].new.ptr # NULL
        /\ Step(d) = "spin_lock"

\* no core is inside an allocator call
Quiescent == \A c \in CoreIds : pc[c] = 0

SysHeapsBalanced ==
    \A c \in Cores(memmap) :
        LET heap == memmap.system[c + 1]
        IN /\ U32Plain(heap.info.used)
           /\ U32Plain(heap.info.free)
           /\ heap.info.used + heap.info.free = heap.size

(* C11: a core that writes a heap descriptor, free_heap's reset included,  *)
(* holds memmap.lock while it does; and once free_heap and the             *)
(* rzalloc_core_sys calls running next to it have returned, every system   *)
(* heap has info.used + info.free = size.                                  *)
C11_ResetUnderLock ==
    /\ \A c \in CoreIds :
          Step(c) \in {"alloc", "free", "reset_used", "reset_free"} => lock = c
    /\ Quiescent /\ ~panicked => SysHeapsBalanced

\* rfree(ptr) on core cpu, from the current registry
RfreeOf(cpu, ptr) == rfree_unlocked(memmap, cpu, ptr)

(* C12: on every core, rfree of a pointer inside the system heap of any    *)
(* core panics and changes nothing in the registry.                        *)
C12_SystemPtrFatal ==
    \A cpu \in CoreIds, core \in Cores(memmap), ptr \in PtrInputs :
        in_heap(memmap.system[core + 1], CachedPtr(ptr)) =>
            /\ RfreeOf(cpu, ptr).panic
            /\ RfreeOf(cpu, ptr).mm = memmap

\* the heaps of the registry, without the heap_trace_updated flag
Heaps(mm) == [cls \in {"system", "system_runtime", "runtime", "buffer"} |-> mm[cls]]

\* the block map of a heap of `heaps` that holds address p: <<i, level>>
MapsHolding(heaps, p) ==
    {il \in (1..Len(heaps)) \X (1..2) :
        /\ il[2] <= heaps[il[1]].blocks
        /\ p >= heaps[il[1]].map[il[2]].base
        /\ p < heaps[il[1]].map[il[2]].base
                 + heaps[il[1]].map[il[2]].block_size * heaps[il[1]].map[il[2]].count}

\* p lies in a block map of a heap rfree on core cpu looks at, off a block
\* boundary
Misaligned(cpu, p) ==
    \/ \E il \in MapsHolding(<<memmap.system_runtime[cpu + 1]>>, p) :
          (p - memmap.system_runtime[cpu + 1].map[il[2]].base)
              % memmap.system_runtime[cpu + 1].map[il[2]].block_size # 0
    \/ \E il \in MapsHolding(memmap.runtime, p) :
          (p - memmap.runtime[il[1]].map[il[2]].base)
              % memmap.runtime[il[1]].map[il[2]].block_size # 0
    \/ \E il \in MapsHolding(memmap.buffer, p) :
          (p - memmap.buffer[il[1]].map[il[2]].base)
              % memmap.buffer[il[1]].map[il[2]].block_size # 0

(* C13: rfree of a pointer inside a block map of the caller's              *)
(* system-runtime heap, a runtime heap or a buffer heap, but not on a      *)
(* block boundary of that map, panics with nothing in the registry changed.*)
C13_MisalignedFatal ==
    \A cpu \in CoreIds, ptr \in PtrInputs :
        Misaligned(cpu, CachedPtr(ptr)) =>
            /\ RfreeOf(cpu, ptr).panic
            /\ RfreeOf(cpu, ptr).mm = memmap

\* a pointer into the middle of a block that is in use, when the map has
\* more than one allocation outstanding
C13_Witness ==
    /\ BagCardinality(live) = 2
    /\ \E rec \in BagToSet(live), cpu \in CoreIds :
          /\ Misaligned(cpu, rec.ptr + 1)
          /\ RfreeOf(cpu, rec.ptr + 1).panic

\* p lies in no heap rfree on core cpu looks at, or past the last block map
\* of the heap it lies in
Unclaimed(cpu, p) ==
    /\ ~in_heap(memmap.system[cpu + 1], p)
    /\ MapsHolding(<<memmap.system_runtime[cpu + 1]>>, p) = {}
    /\ MapsHolding(memmap.runtime, p) = {}
    /\ MapsHolding(memmap.buffer, p) = {}

(* C14: rfree of a non-null pointer that lies in none of the caller's      *)
(* system heap, the caller's system-runtime heap, the runtime heaps and    *)
(* the buffer heaps, or past the last block map of its heap, returns       *)
(* without panic and leaves every heap (info, free_count, first_free,      *)
(* headers) as it was.                                                     *)
C14_UnclaimedNoEffect ==
    \A cpu \in CoreIds, ptr \in PtrInputs :
        Unclaimed(cpu, CachedPtr(ptr)) =>
            /\ ~RfreeOf(cpu, ptr).panic
            /\ Heaps(RfreeOf(cpu, ptr).mm) = Heaps(memmap)

\* core cpu gives rfree the address of a block in use in the other core's
\* system-runtime heap
C14_Witness ==
    \E rec \in BagToSet(live), cpu \in CoreIds :
        /\ rec.ref[1] = "system_runtime"
        /\ rec.ref[2] # cpu + 1
        /\ Unclaimed(cpu, rec.ptr)
        /\ RfreeOf(cpu, rec.ptr).mm.heap_trace_updated = 1

\* core c takes a step of the call it is in
StepOf(c) == pc[c] # 0 /\ pc'[c] # pc[c]

(* C15: rfree(NULL) changes nothing in the registry, heap_trace_updated    *)
(* included, does not panic, and has given the lock up when it returns.    *)
C15_NullFree ==
    \A c \in CoreIds :
        StepOf(c) /\ call[c].op = "rfree" /\ call[c].old = NoRec =>
            /\ memmap' = memmap
            /\ ~panicked'
            /\ pc'[c] = 0 => lock' = NoCore /\ Step(c) = "spin_unlock"

C15_NullFreeNoop == [][C15_NullFree]_vars

\* rfree(NULL) is past _rfree_unlocked, holding the lock, while a block is
\* in use
C15_Witness ==
    \E c \in CoreIds :
        /\ call[c].op = "rfree" /\ call[c].old = NoRec
        /\ Step(c) = "spin_unlock"
        /\ lock = c
        /\ live # EmptyBag

(* C16: _realloc and _brealloc with bytes == 0 return NULL at their first  *)
(* step, for a null and for a live ptr: the lock is not touched, the       *)
(* registry is unchanged and the block of ptr stays with the caller.       *)
C16_ZeroBytes ==
    \A c \in CoreIds :
        StepOf(c) /\ call[c].op \in {"_realloc", "_brealloc"} /\ call[c].bytes = 0 =>
            /\ pc[c] = 1 /\ pc'[c] = 0
            /\ call[c].new.ptr = NULL
            /\ memmap' = memmap
            /\ lock' = lock
            /\ live' = live (+) Back(call[c].old)

C16_ZeroBytesNoop == [][C16_ZeroBytes]_vars

\* a reallocation to 0 bytes of a live block is about to return while the
\* other core holds the lock
C16_Witness ==
    \E c \in CoreIds, d \in CoreIds :
        /\ call[c].op \in {"_realloc", "_brealloc"}
        /\ call[c].bytes = 0
        /\ call[c].old # NoRec
        /\ pc[c] = 1
        /\ lock = d /\ d # c

----------------------------------------------------------------------------
\* _realloc (system-runtime and runtime zones) and _brealloc of an outstanding
\* allocation with a non-zero size: <<cpu, rec, zone, caps, bytes>>
ReallocCases ==
    CoreIds \X BagToSet(live) \X ReallocZoneInputs \X ReallocCapsInputs
        \X BlockBytesInputs

BreallocCases ==
    CoreIds \X BagToSet(live) \X BufferZoneInputs \X ReallocCapsInputs
        \X BytesInputs

ReallocOf(c) == realloc_unlocked(memmap, c[2].ptr, c[3], c[4], c[5], c[1])

BreallocOf(c) == brealloc_unlocked(memmap, c[2].ptr, c[3], c[4], c[5], c[1])

\* the allocation the reallocation starts with
NewOf(c) == malloc_unlocked(memmap, c[3], c[4], c[5], c[1])

BnewOf(c) == balloc_unlocked(memmap, c[3], c[4], c[5])

\* the call returned NULL without a panic
ReturnsNull(r) == r.ptr = NULL /\ ~r.panic

(* C17: when the new allocation inside _realloc (system-runtime and        *)
(* runtime zones) or _brealloc fails, the call returns NULL and the heap   *)
(* of the old pointer keeps its headers, free_count, first_free and info   *)
(* counters: the old pointer is not freed.                                 *)
C17_FailedReallocKeepsOld ==
    /\ \A c \in ReallocCases :
          ReturnsNull(NewOf(c)) =>
              /\ ReturnsNull(ReallocOf(c))
              /\ HeapAt(ReallocOf(c).mm, c[2].ref) = HeapAt(memmap, c[2].ref)
    /\ \A c \in BreallocCases :
          ReturnsNull(BnewOf(c)) =>
              /\ ReturnsNull(BreallocOf(c))
              /\ HeapAt(BreallocOf(c).mm, c[2].ref) = HeapAt(memmap, c[2].ref)

\* a reallocation of a block whose header is marked used fails, once through
\* _realloc and once through _brealloc
C17_Witness ==
    /\ \E c \in ReallocCases :
          /\ ReturnsNull(ReallocOf(c))
          /\ MapAt(memmap, <<c[2].ref, c[2].lvl>>).block[c[2].s + 1].used = 1
    /\ \E c \in BreallocCases :
          /\ ReturnsNull(BreallocOf(c))
          /\ MapAt(memmap, <<c[2].ref, c[2].lvl>>).block[c[2].s + 1].used = 1

\* the header of slot k of the map an allocation record names
HeaderOf(mm, ref, lvl, k) == MapAt(mm, <<ref, lvl>>).block[k + 1]

\* the reallocation returned a pointer
Succeeds(r) == r.ptr # NULL /\ ~r.panic

\* what C18 says of one reallocation: new is what the allocation step
\* returned, r what the call returned, rec the old allocation
Replaced(new, r, rec) ==
    Succeeds(r) =>
        /\ HeaderOf(new.mm, rec.ref, rec.lvl, rec.s).used = 1
        /\ CachedPtr(r.ptr) # CachedPtr(rec.ptr)
        /\ \A k \in rec.s..(rec.s + rec.n - 1) :
              HeaderOf(r.mm, rec.ref, rec.lvl, k).used = 0
        /\ ~r.oob
        /\ \A k \in r.s..(r.s + r.n - 1) :
              HeaderOf(r.mm, r.ref, r.lvl, k).used = 1

(* C18: when _realloc or _brealloc succeeds on an outstanding allocation,  *)
(* the new block is allocated while the old one is still marked used, so   *)
(* the pointer returned is never the old one, and when the call returns    *)
(* the old block is free and the new block is marked used.                 *)
C18_ReallocReplaces ==
    /\ \A c \in ReallocCases : Replaced(NewOf(c), ReallocOf(c), c[2])
    /\ \A c \in BreallocCases : Replaced(BnewOf(c), BreallocOf(c), c[2])

(* C19: whenever _malloc (system-runtime or runtime zone) or _balloc       *)
(* returns NULL, every heap's info counters and every block map's          *)
(* free_count, first_free and headers are what they were before the call.  *)
C19_NullLeavesHeaps ==
    /\ \A c \in MallocCases :
          ReturnsNull(MallocOf(c)) => Heaps(MallocOf(c).mm) = Heaps(memmap)
    /\ \A c \in BallocCases :
          ReturnsNull(BallocOf(c)) => Heaps(BallocOf(c).mm) = Heaps(memmap)

\* with an allocation outstanding, the three ways to NULL: no heap has the
\* capabilities; a map of the heap chosen has blocks large enough but none
\* free; a map could hold the span but has not the unused blocks
C19_Witness ==
    /\ live # EmptyBag
    /\ \E c \in BallocCases :
          /\ ReturnsNull(BallocOf(c))
          /\ get_heap_from_caps(memmap.buffer, 1, c[2]) = 0
    /\ \E c \in MallocCases, mr \in MapRefs(memmap) :
          /\ ReturnsNull(MallocOf(c))
          /\ c[2].type = "RUNTIME"
          /\ mr[1][1] \in {"runtime", "buffer"}
          /\ get_heap_from_caps(memmap[mr[1][1]], 1, c[3]) = mr[1][2]
          /\ mr[1][1] = "buffer" => get_heap_from_caps(memmap.runtime, 1, c[3]) = 0
          /\ MapAt(memmap, mr).block_size >= c[4]
          /\ MapAt(memmap, mr).free_count = 0
    /\ \E c \in BallocCases, mr \in MapRefs(memmap) :
          /\ ReturnsNull(BallocOf(c))
          /\ mr[1][1] = "buffer"
          /\ c[2] \subseteq HeapAt(memmap, mr[1]).caps
          /\ CeilBlocks(c[3], MapAt(memmap, mr).block_size) \in 2..MapAt(memmap, mr).count
          /\ Unused(MapAt(memmap, mr)) # {}

\* the heaps of an array that hold address p
HeapsHolding(heaps, p) == {i \in 1..Len(heaps) : in_heap(heaps[i], p)}

\* the block r hands out lies in a runtime or buffer heap whose caps contain
\* the request
FromCapableHeap(r, caps) ==
    \E cls \in {"runtime", "buffer"} :
        \E i \in HeapsHolding(memmap[cls], CachedPtr(r.ptr)) :
            caps \subseteq memmap[cls][i].caps

\* heaps of an array whose caps contain the request
Capable(heaps, caps) == {j \in 1..Len(heaps) : caps \subseteq heaps[j].caps}

(* C20: get_heap_from_caps returns the lowest-index heap of the array      *)
(* whose caps contain every requested bit and NULL when there is none, and *)
(* every block handed out by _malloc (runtime zone) or _balloc is taken    *)
(* from, and lies in, a heap whose caps contain the requested mask.        *)
C20_CapableHeap ==
    /\ \A cls \in {"runtime", "buffer"}, caps \in CapsInputs :
          LET i == get_heap_from_caps(memmap[cls], 1, caps)
              ok == Capable(memmap[cls], caps)
          IN IF ok = {} THEN i = 0 ELSE i \in ok /\ \A j \in ok : i <= j
    /\ \A c \in MallocCases :
          c[2].type = "RUNTIME" /\ Succeeds(MallocOf(c)) =>
              /\ c[3] \subseteq HeapAt(memmap, MallocOf(c).ref).caps
              /\ FromCapableHeap(MallocOf(c), c[3])
    /\ \A c \in BallocCases :
          Succeeds(BallocOf(c)) =>
              /\ c[2] \subseteq HeapAt(memmap, BallocOf(c).ref).caps
              /\ FromCapableHeap(BallocOf(c), c[2])

\* every _malloc request: <<cpu, zone, caps, bytes>>
AnyMallocCases == CoreIds \X ZoneInputs \X CapsInputs \X BlockBytesInputs

\* the caller's heap of the zone's class lacks a requested capability
CapsMissing(c) ==
    \/ c[2].type = "SYS" /\ ~(c[3] \subseteq memmap.system[c[1] + 1].caps)
    \/ c[2].type = "SYS_RUNTIME" /\ ~(c[3] \subseteq memmap.system_runtime[c[1] + 1].caps)

UnknownZone(c) == c[2].type \notin {"SYS", "SYS_RUNTIME", "RUNTIME"}

(* C21: _malloc panics, and leaves the whole registry as it was, when the  *)
(* zone is System or SystemRuntime and the calling core's heap of that     *)
(* class lacks a requested capability, and when the zone type is none of   *)
(* System, SystemRuntime and Runtime.                                      *)
C21_MallocFatal ==
    \A c \in AnyMallocCases :
        CapsMissing(c) \/ UnknownZone(c) =>
            MallocOf(c).panic /\ MallocOf(c).mm = memmap

\* with an allocation outstanding, a request of each of the three kinds
C21_Witness ==
    /\ live # EmptyBag
    /\ \E c \in AnyMallocCases : c[2].type = "SYS" /\ CapsMissing(c) /\ MallocOf(c).panic
    /\ \E c \in AnyMallocCases : c[2].type = "SYS_RUNTIME" /\ CapsMissing(c) /\ MallocOf(c).panic
    /\ \E c \in AnyMallocCases : UnknownZone(c) /\ MallocOf(c).panic

\* rzalloc_core_sys requests <<cpu, core, bytes>> and System-zone _malloc
\* requests <<cpu, cpu, bytes>>, both with no capability asked for
SysCases == CoreIds \X CoreIds \X SysBytesInputs

SysOf(c) == rzalloc_core_sys_unlocked(memmap, c[2], c[3], c[1])

SysMallocOf(c) ==
    malloc_unlocked(memmap, [type |-> "SYS", flag |-> "CACHED"], {}, c[3], c[1])

\* a + b > f over the unsigned integers, from the held values of b and f
Exceeds(a, b, f) == U32Less(f, a) \/ U32Less(f - a, b)

\* what C22 says of a request r for `bytes` bytes of system heap `heap`
SysContract(r, heap, bytes) ==
    /\ r.panic \/ r.ptr # NULL
    /\ r.panic <=> Exceeds(sys_alignment(heap), bytes, heap.info.free)
    /\ r.panic => r.mm = memmap

(* C22: _malloc with the System zone and rzalloc_core_sys never return     *)
(* NULL; each call returns a pointer or panics, and it panics, with the    *)
(* heap's info unchanged, exactly when the alignment padding plus the      *)
(* requested bytes exceeds info.free of the target core's system heap.     *)
C22_SysNeverNull ==
    \A c \in SysCases :
        /\ SysContract(SysOf(c), memmap.system[c[2] + 1], c[3])
        /\ c[1] = c[2] => SysContract(SysMallocOf(c), memmap.system[c[1] + 1], c[3])

\* free_heap requests: <<cpu, zone>>; RZONE_SYS is the System type with no flag
FreeHeapCases ==
    CoreIds \X (FreeHeapZoneInputs \cup {Zone("SYS", "UNCACHED")})

FreeHeapOf(c) == free_heap(memmap, c[2], c[1])

\* the registry with one system heap emptied
SysHeapReset(mm, cpu) ==
    [mm EXCEPT !.system[cpu + 1].info =
                   [used |-> 0, free |-> mm.system[cpu + 1].size]]

(* C23: free_heap panics, changing no heap, on the master core and with a  *)
(* zone other than System; otherwise it sets the calling core's system     *)
(* heap to info.used = 0 and info.free = size and changes nothing else.    *)
C23_FreeHeapContract ==
    \A c \in FreeHeapCases :
        IF c[1] = PLATFORM_MASTER_CORE_ID \/ c[2] # Zone("SYS", "CACHED")
        THEN FreeHeapOf(c).panic /\ FreeHeapOf(c).mm = memmap
        ELSE ~FreeHeapOf(c).panic /\ FreeHeapOf(c).mm = SysHeapReset(memmap, c[1])

\* both system heaps are in use and a block is outstanding when free_heap
\* is asked for
C23_Witness ==
    /\ live # EmptyBag
    /\ \A core \in Cores(memmap) : memmap.system[core + 1].info.used > 0
    /\ \E c \in FreeHeapCases : ~FreeHeapOf(c).panic /\ FreeHeapOf(c).mm # memmap
    /\ \E c \in FreeHeapCases : FreeHeapOf(c).panic

\* the heaps a core owns
OwnedBy(core) == {<<"system", core + 1>>, <<"system_runtime", core + 1>>}

\* a step of core c that changes a heap of another core holds the lock
\* before and after, and has written the descriptor back and invalidated it
C24_Flushed ==
    \A c \in CoreIds : \A other \in CoreIds \ {c} :
        \A ref \in OwnedBy(other) :
            StepOf(c) /\ HeapAt(memmap', ref) # HeapAt(memmap, ref) =>
                /\ ref \in flushed'
                /\ lock = c /\ lock' = c

(* C24: whenever an allocation or a free changes a heap owned by a core    *)
(* other than the calling core, the heap descriptor is written back and    *)
(* invalidated after the change and before the lock is released.           *)
C24_CrossCoreFlush == [][C24_Flushed]_vars

\* a core holds the lock just after it allocated from another core's system
\* heap and flushed that heap's descriptor
C24_Witness ==
    \E c \in CoreIds : \E other \in CoreIds \ {c} :
        /\ lock = c
        /\ call[c].op = "rzalloc_core_sys" /\ call[c].core = other
        /\ Step(c) = "spin_unlock"
        /\ <<"system", other + 1>> \in flushed
        /\ memmap.system[other + 1].info.used > 0

----------------------------------------------------------------------------
(* Termination of the calls: the steps of SpecCores over a registry with   *)
(* two buffer heaps, with a fair lock and every core going on running.     *)

\* two buffer heaps of one block each, so that _balloc passes from one to
\* the next
LayoutFair ==
    [system |-> <<NoSysHeap(10), NoSysHeap(20)>>,
     system_runtime |-> <<NoBlockHeap(30), NoBlockHeap(40)>>,
     runtime |-> <<BlockHeap(50, {"RAM"}, <<BlockDef(2, 1)>>)>>,
     buffer |-> <<BlockHeap(60, {"RAM"}, <<BlockDef(2, 1)>>),
                  BlockHeap(70, {"RAM"}, <<BlockDef(2, 1)>>)>>,
     heap_trace_updated |-> 0]

FairCallInputs ==
    {CallOf("_malloc", Zone("RUNTIME", "CACHED"), {}, 2, 0, NoRec),
     CallOf("_balloc", Zone("BUFFER", "CACHED"), {}, 2, 0, NoRec)}
    \cup {CallOf("rfree", Zone("SYS", "CACHED"), {}, 0, 0, old) :
            old \in BagToSet(live) \cup {NoRec}}
    \cup {CallOf("_realloc", Zone("RUNTIME", "CACHED"), {}, bytes, 0, old) :
            bytes \in {0, 2}, old \in BagToSet(live)}
    \cup {CallOf("_brealloc", Zone("BUFFER", "CACHED"), {}, bytes, 0, old) :
            bytes \in {0, 2}, old \in BagToSet(live)}

\* the step a call allocates in is still ahead of core c
Pending ==
    {c \in CoreIds :
        /\ pc[c] # 0
        /\ \E i \in pc[c]..Len(EntrySteps(call[c].op)) :
              EntrySteps(call[c].op)[i] = "alloc"}

Allocates(op) == \E i \in 1..Len(EntrySteps(op)) : EntrySteps(op)[i] = "alloc"

InitFair ==
    /\ memmap = init_heap(LayoutFair)
    /\ lock = NoCore
    /\ pc = [c \in CoreIds |-> 0]
    /\ call = [c \in CoreIds |-> NoCall]
    /\ live = EmptyBag
    /\ panicked = FALSE
    /\ ub = FALSE
    /\ flushed = {}

\* a call is made only if the allocations outstanding and in progress leave
\* room for its own
EnterFair(c, cl) ==
    /\ BagCardinality(live) + Cardinality(Held) + Cardinality(Pending)
          + (IF Allocates(cl.op) THEN 1 ELSE 0) <= MaxLive
    /\ Enter(c, cl)

NextFair ==
    \/ \E c \in CoreIds, cl \in FairCallInputs : EnterFair(c, cl)
    \/ \E c \in CoreIds : CheckBytes(c)
    \/ \E c \in CoreIds : SpinLock(c)
    \/ \E c \in CoreIds : AllocStep(c)
    \/ \E c \in CoreIds : FreeStep(c)
    \/ \E c \in CoreIds : SpinUnlock(c)

\* core c executes a statement other than spin_lock_irq: its position moves
\* to the next step, or to 0 when the call returns
Runs(c) ==
    /\ ~panicked /\ ~ub
    /\ Step(c) \in {"check", "alloc", "free", "spin_unlock"}
    /\ \E n \in {0, pc[c] + 1} : pc' = [pc EXCEPT ![c] = n]

\* core c gets the lock it is spinning on
Takes(c) ==
    /\ ~panicked /\ ~ub
    /\ Step(c) = "spin_lock"
    /\ spin_lock_free(lock)
    /\ pc' = [pc EXCEPT ![c] = @ + 1]

\* a core inside a call goes on executing, and a core spinning on the lock
\* gets it if it is free again and again
Fairness ==
    \A c \in CoreIds : WF_pc(Runs(c)) /\ SF_pc(Takes(c))

SpecFair == InitFair /\ [][NextFair]_vars /\ Fairness

\* the buffer heaps _balloc_unlocked examines, in the order of its loop
RECURSIVE balloc_visits(_, _, _, _, _)
balloc_visits(mm, from, zone, caps, bytes) ==
    LET i == get_heap_from_caps(mm.buffer, from, caps)
        r == alloc_heap_buffer(mm.buffer[i], zone, bytes)
    IN IF from > PLATFORM_HEAP_BUFFER(mm) \/ i = 0 THEN <<>>
       ELSE IF r.ptr # NULL THEN <<i>>
       ELSE <<i>> \o balloc_visits(SetHeap(mm, <<"buffer", i>>, r.heap), i + 1,
                                   zone, caps, bytes)

\* the loop of every _balloc request goes up the array and ends
BallocLoopBounded ==
    \A c \in BallocCases :
        LET v == balloc_visits(memmap, 1, c[1], c[2], c[3])
        IN /\ Len(v) <= PLATFORM_HEAP_BUFFER(memmap)
           /\ \A j \in 1..(Len(v) - 1) : v[j] < v[j + 1]

\* what the step ahead of core c would return
AheadOf(c) ==
    CASE Step(c) = "alloc" /\ call[c].op \in {"_malloc", "_realloc"} ->
             malloc_unlocked(memmap, call[c].zone, call[c].caps, call[c].bytes, c)
      [] Step(c) = "alloc" /\ call[c].op \in {"_balloc", "_brealloc"} ->
             balloc_unlocked(memmap, call[c].zone, call[c].caps, call[c].bytes)
      [] Step(c) = "free" /\ (call[c].op = "rfree" \/ call[c].new.ptr # NULL) ->
             Fail(rfree_unlocked(memmap, c, call[c].old.ptr).mm)
      [] OTHER -> Fail(memmap)

\* nothing but the lock makes a core wait: the step ahead of a core past
\* spin_lock_irq can be taken
StepsReady ==
    \A c \in CoreIds :
        pc[c] # 0 /\ ~panicked /\ ~ub /\ Step(c) # "spin_lock" =>
            /\ WrapOK(AheadOf(c).mm)
            /\ BagCardinality(live (+) Added(AheadOf(c))) + Cardinality(Held) <= MaxLive

\* core c is inside one of the five calls
InCall(c) ==
    pc[c] # 0 /\ call[c].op \in {"_malloc", "_balloc", "rfree", "_realloc", "_brealloc"}

(* C25: under a fair lock every call to _malloc, _balloc, rfree, _realloc  *)
(* or _brealloc eventually returns or panics, and the heap loop of         *)
(* _balloc_unlocked examines each buffer heap index at most once, in at    *)
(* most PLATFORM_HEAP_BUFFER iterations.                                   *)
C25_CallsTerminate ==
    /\ \A c \in CoreIds : InCall(c) ~> (pc[c] = 0 \/ panicked)
    /\ []StepsReady
    /\ []BallocLoopBounded

\* a core spins on the lock another core holds, and a _balloc request would
\* go through both buffer heaps
C25_Witness ==
    /\ \E c \in CoreIds : Step(c) = "spin_lock" /\ lock \notin {c, NoCore}
    /\ \E c \in BallocCases : Len(balloc_visits(memmap, 1, c[1], c[2], c[3])) = 2

----------------------------------------------------------------------------
\* get_ptr_from_heap on a heap of the registry: <<ref, bytes>>
SingleCases == BlockHeapRefs(memmap) \X BlockBytesInputs

SingleOf(c) ==
    get_ptr_from_heap(HeapAt(memmap, c[1]), Zone("RUNTIME", "CACHED"), c[2])

\* maps with block_size >= bytes and free_count > 0
Qualifies(heap, bytes) ==
    {i \in 1..heap.blocks :
        heap.map[i].block_size >= bytes /\ heap.map[i].free_count > 0}

\* what C26 says get_ptr_from_heap does to heap `heap` on map lvl, g being
\* what it returned
SingleEffect(heap, lvl, g) ==
    LET map == heap.map[lvl]
        ff == map.first_free
    IN /\ g.ptr = map.base + ff * map.block_size
       /\ ff + 1 \in DOMAIN map.block
       /\ g.heap.map[lvl].block = [map.block EXCEPT ![ff + 1] = [size |-> 1, used |-> 1]]
       /\ ~g.oob
       /\ g.heap.map[lvl].free_count = map.free_count - 1
       /\ g.heap.info.used = U32(heap.info.used + map.block_size)
       /\ g.heap.info.free = U32(heap.info.free - map.block_size)
       /\ g.heap = [heap EXCEPT !.map[lvl] = g.heap.map[lvl], !.info = g.heap.info]
       /\ [g.heap.map[lvl] EXCEPT !.first_free = ff, !.free_count = map.free_count,
                                  !.block = map.block] = map

(* C26: a single-block allocation from a heap takes the lowest-index map   *)
(* with block_size >= bytes and free_count > 0, returns base + first_free  *)
(* * block_size, sets the header at first_free to used = 1 and size = 1,   *)
(* takes exactly 1 from the map's free_count, moves exactly block_size     *)
(* bytes from info.free to info.used and changes no other map or header;   *)
(* it returns NULL, changing nothing, when no map qualifies.               *)
C26_SingleBlock ==
    \A c \in SingleCases :
        LET heap == HeapAt(memmap, c[1])
            ok == Qualifies(heap, c[2])
        IN IF ok = {}
           THEN SingleOf(c).ptr = NULL /\ SingleOf(c).heap = heap
           ELSE SingleEffect(heap, MinOf(ok), SingleOf(c))

MaxOf(S) == CHOOSE i \in S : \A j \in S : j <= i

\* maps smaller than the request on which a span for it can be allocated
SpanLevels(heap, bytes) ==
    {l \in 1..heap.blocks :
        /\ heap.map[l].block_size < bytes
        /\ alloc_cont_blocks(heap, l, bytes).ptr # NULL}

\* the heap has a single block or a span for the request
HeapYields(heap, bytes) ==
    fit_levels(heap, bytes) # {} \/ SpanLevels(heap, bytes) # {}

\* the map C27 says the heap serves the request from
YieldLevel(heap, bytes) ==
    IF fit_levels(heap, bytes) # {} THEN MinOf(fit_levels(heap, bytes))
    ELSE MaxOf(SpanLevels(heap, bytes))

\* buffer heaps with the capabilities and something to give
Yielding(caps, bytes) ==
    {i \in Capable(memmap.buffer, caps) : HeapYields(memmap.buffer[i], bytes)}

\* a fresh heap on which a span of 4 bytes can be had from either map
ProbeHeap ==
    init_heap_map(<<BlockHeap(80, {"RAM"}, <<BlockDef(1, 4), BlockDef(2, 2)>>)>>)[1]

(* C27: _balloc allocates only from buffer heaps whose caps contain the    *)
(* request, in ascending array order; in each heap it first tries a single *)
(* block (ascending maps) and only then spans, from the highest-index map  *)
(* down, among maps with block_size < bytes; it returns the first success  *)
(* and NULL only if every capable buffer heap failed both attempts.        *)
C27_BallocOrder ==
    /\ \A c \in BallocCases :
          LET r == BallocOf(c)
              cand == Yielding(c[2], c[3])
              heap == memmap.buffer[MinOf(cand)]
          IN IF cand = {} THEN r.ptr = NULL
             ELSE /\ r.ptr # NULL
                  /\ r.ref = <<"buffer", MinOf(cand)>>
                  /\ c[2] \subseteq heap.caps
                  /\ r.lvl = YieldLevel(heap, c[3])
                  /\ (r.n = 1) = (fit_levels(heap, c[3]) # {})
                  /\ r.n = 1 \/ r.n = span_count(heap.map[r.lvl], c[3])
    /\ \A bytes \in BytesInputs :
          LET g == alloc_heap_buffer(ProbeHeap, Zone("BUFFER", "CACHED"), bytes)
          IN IF HeapYields(ProbeHeap, bytes)
             THEN g.ptr # NULL /\ g.lvl = YieldLevel(ProbeHeap, bytes)
             ELSE g.ptr = NULL

\* a request is served by the second buffer heap after the first, capable,
\* had nothing; another is served a span after no single block fitted
C27_Witness ==
    /\ \E c \in BallocCases :
          /\ BallocOf(c).ref = <<"buffer", 2>>
          /\ 1 \in Capable(memmap.buffer, c[2])
    /\ \E c \in BallocCases :
          /\ IsSpan(BallocOf(c))
          /\ BallocOf(c).lvl < HeapAt(memmap, BallocOf(c).ref).blocks
    /\ live # EmptyBag

\* Runtime-zone _malloc requests: <<cpu, caps, bytes>>
RuntimeCases == CoreIds \X CapsInputs \X BlockBytesInputs

RuntimeOf(c) == malloc_unlocked(memmap, Zone("RUNTIME", "CACHED"), c[2], c[3], c[1])

\* the one heap C28 says the request is tried in, NoHeap if none qualifies
RuntimeChoice(caps) ==
    IF Capable(memmap.runtime, caps) # {}
    THEN <<"runtime", MinOf(Capable(memmap.runtime, caps))>>
    ELSE IF Capable(memmap.buffer, caps) # {}
    THEN <<"buffer", MinOf(Capable(memmap.buffer, caps))>>
    ELSE NoHeap

(* C28: _malloc with the Runtime zone tries exactly one heap, the first    *)
(* runtime heap whose caps contain the request or, only if there is none,  *)
(* the first such buffer heap; it returns NULL if no heap qualifies and    *)
(* also when that one heap has no suitable free block, trying no other.    *)
C28_OneHeap ==
    \A c \in RuntimeCases :
        LET r == RuntimeOf(c)
            ref == RuntimeChoice(c[2])
        IN /\ ~r.panic
           /\ IF ref = NoHeap \/ Qualifies(HeapAt(memmap, ref), c[3]) = {}
              THEN r.ptr = NULL /\ Heaps(r.mm) = Heaps(memmap)
              ELSE r.ptr # NULL /\ r.ref = ref
           /\ \A other \in BlockHeapRefs(memmap) \ {ref} :
                 HeapAt(r.mm, other) = HeapAt(memmap, other)

\* a request gets NULL from the runtime heap chosen while a buffer heap with
\* the capabilities has a free block for it; another request is served by a
\* buffer heap because no runtime heap has the capabilities
C28_Witness ==
    /\ \E c \in RuntimeCases :
          /\ RuntimeOf(c).ptr = NULL
          /\ RuntimeChoice(c[2])[1] = "runtime"
          /\ \E i \in Capable(memmap.buffer, c[2]) :
                Qualifies(memmap.buffer[i], c[3]) # {}
    /\ \E c \in RuntimeCases : RuntimeOf(c).ptr # NULL /\ RuntimeOf(c).ref[1] = "buffer"
    /\ live # EmptyBag

\* the hint of a block map
HintOf(mm, mr) == MapAt(mm, mr).first_free

\* no hint is lower in registry mm than it is now
HintsNotLower(mm) ==
    \A mr \in MapRefs(memmap) : HintOf(mm, mr) >= HintOf(memmap, mr)

\* the map and block rfree on core cpu frees for ptr: <<ref, level, block>>,
\* level 0 if it frees nothing
FreedBlock(cpu, ptr) ==
    LET p == CachedPtr(ptr)
        ref == get_heap_from_ptr(memmap, cpu, p)
        level == map_of_ptr(HeapAt(memmap, ref), p)
    IN IF ptr = NULL \/ RfreeOf(cpu, ptr).panic \/ ref = NoHeap \/ level = 0
       THEN <<NoHeap, 0, 0>>
       ELSE <<ref, level, block_of_ptr(HeapAt(memmap, ref).map[level], p)>>

\* rfree moves the hint of the freed block's map down to that block when it
\* lies below the hint, and no other hint
HintAfterFree(cpu, ptr) ==
    LET fb == FreedBlock(cpu, ptr)
    IN \A mr \in MapRefs(memmap) :
          HintOf(RfreeOf(cpu, ptr).mm, mr) =
              IF mr = <<fb[1], fb[2]>> /\ fb[3] < HintOf(memmap, mr)
              THEN fb[3] ELSE HintOf(memmap, mr)

(* C29: a block map's first_free never decreases in an allocation, single  *)
(* block or span; it decreases only in rfree, which sets it to the freed   *)
(* block's index exactly when that index is below first_free and leaves it *)
(* unchanged otherwise.                                                    *)
C29_HintMonotone ==
    /\ \A c \in AnyMallocCases : HintsNotLower(MallocOf(c).mm)
    /\ \A c \in BallocCases : HintsNotLower(BallocOf(c).mm)
    /\ \A c \in SysCases : HintsNotLower(SysOf(c).mm)
    /\ \A c \in FreeHeapCases : HintsNotLower(FreeHeapOf(c).mm)
    /\ \A cpu \in CoreIds, ptr \in PtrInputs \cup {NULL} : HintAfterFree(cpu, ptr)

\* an rfree lowers a hint, another (of a block at or above the hint) frees
\* a block and leaves the hint, and a span can be allocated
C29_Witness ==
    /\ \E cpu \in CoreIds, rec \in BagToSet(live) :
          /\ FreedBlock(cpu, rec.ptr)[2] # 0
          /\ HintOf(RfreeOf(cpu, rec.ptr).mm, <<rec.ref, rec.lvl>>)
                < HintOf(memmap, <<rec.ref, rec.lvl>>)
    /\ \E cpu \in CoreIds, rec \in BagToSet(live) :
          /\ FreedBlock(cpu, rec.ptr)[2] # 0
          /\ HintOf(RfreeOf(cpu, rec.ptr).mm, <<rec.ref, rec.lvl>>)
                = HintOf(memmap, <<rec.ref, rec.lvl>>)
    /\ \E c \in BallocCases : IsSpan(BallocOf(c))

\* first address after map j of a heap
MapEnd(heap, j) == heap.map[j].base + heap.map[j].block_size * heap.map[j].count

\* the maps of every block heap lie one after the other from the heap base
Contiguous ==
    \A ref \in BlockHeapRefs(memmap) :
        LET heap == HeapAt(memmap, ref)
        IN /\ heap.blocks >= 1 => heap.map[1].base = heap.heap
           /\ \A j \in 2..heap.blocks : heap.map[j].base = MapEnd(heap, j - 1)
           /\ \A j, k \in 1..heap.blocks :
                 j < k => /\ heap.map[j].base < heap.map[k].base
                          /\ MapEnd(heap, j) <= heap.map[k].base

\* a step leaves the base of every map as it is
BasesKept ==
    \A mr \in MapRefs(memmap) : MapAt(memmap', mr).base = MapAt(memmap, mr).base

(* C30: after init_heap, in every system-runtime, runtime and buffer heap  *)
(* map[0].base is the heap base and map[j].base is map[j-1].base +         *)
(* map[j-1].block_size * map[j-1].count, so the address ranges of a heap's *)
(* maps are contiguous, ascending and disjoint; no later operation changes *)
(* a base.                                                                 *)
C30_MapBases == []Contiguous /\ [][BasesKept]_vars

\* blocks of the first and of the second map of one heap are outstanding
C30_Witness ==
    \E a, b \in BagToSet(live) :
        /\ a.ref = b.ref /\ a.lvl = 1 /\ b.lvl = 2
        /\ MapAt(memmap, <<b.ref, 2>>).base = MapEnd(HeapAt(memmap, b.ref), 1)
        /\ b.ptr >= MapAt(memmap, <<b.ref, 2>>).base

----------------------------------------------------------------------------
(* C31: in every reachable state every block header has used = 1 when its  *)
(* size is above 0, and size = 0 when its used is 0.                       *)
C31_HeaderFlags ==
    \A mr \in MapRefs(memmap) :
        \A k \in DOMAIN MapAt(memmap, mr).block :
            LET hdr == MapAt(memmap, mr).block[k]
            IN /\ hdr.size > 0 => hdr.used = 1
               /\ hdr.used = 0 => hdr.size = 0

----------------------------------------------------------------------------
(* The entry points next to heap_trace_all, which reports the buffer and   *)
(* runtime heaps when the flag is set and clears the flag.                 *)

InitTrace ==
    /\ memmap = init_heap(LayoutCores)
    /\ lock = NoCore
    /\ pc = [c \in CoreIds |-> 0]
    /\ call = [c \in CoreIds |-> NoCall]
    /\ live = EmptyBag
    /\ panicked = FALSE
    /\ ub = FALSE
    /\ flushed = {}

\* heap_trace_all(force): force only decides what is printed
HeapTraceAll ==
    /\ ~panicked /\ ~ub
    /\ memmap' = heap_trace_all(memmap)
    /\ UNCHANGED <<lock, pc, call, live, panicked, ub, flushed>>

NextTrace ==
    \/ Next
    \/ HeapTraceAll

SpecTrace == InitTrace /\ [][NextTrace]_vars

\* the step changed the occupancy of a runtime or buffer heap
OccupancyChanged ==
    \/ memmap'.runtime # memmap.runtime
    \/ memmap'.buffer # memmap.buffer

C32_Dirty ==
    /\ OccupancyChanged /\ ~panicked' => memmap'.heap_trace_updated = 1
    /\ memmap.heap_trace_updated = 1 /\ memmap'.heap_trace_updated # 1 =>
          memmap' = heap_trace_all(memmap)
    /\ memmap' = heap_trace_all(memmap) => memmap'.heap_trace_updated = 0

(* C32: an operation that changes the occupancy of a runtime or buffer     *)
(* heap leaves heap_trace_updated at 1 when it returns; the flag stays 1   *)
(* until the next heap_trace_all, which always leaves it 0.                *)
C32_DirtyFlag == [][C32_Dirty]_vars

----------------------------------------------------------------------------
(* C33: in every reachable state every block map has                       *)
(* 0 <= free_count <= count and first_free <= count: free_count never      *)
(* wraps below zero in its 16 bits and never exceeds count.                *)
C33_CountsInRange ==
    \A mr \in MapRefs(memmap) :
        LET map == MapAt(memmap, mr)
        IN /\ 0 <= map.free_count
           /\ map.free_count <= map.count
           /\ map.first_free <= map.count

----------------------------------------------------------------------------
(* Allocations that succeed and rfree of the pointers they returned, each  *)
(* freed once, on the core that owns its system-runtime heap.              *)

MallocOk(cpu, zone, caps, bytes) ==
    /\ malloc_unlocked(memmap, zone, caps, bytes, cpu).ptr # NULL
    /\ Malloc(cpu, zone, caps, bytes)

BallocOk(zone, caps, bytes) ==
    /\ balloc_unlocked(memmap, zone, caps, bytes).ptr # NULL
    /\ Balloc(zone, caps, bytes)

RfreeOwn(cpu, rec) ==
    /\ rec.ref[1] = "system_runtime" => rec.ref[2] = cpu + 1
    /\ Rfree(cpu, rec)

NextPairs ==
    \/ \E cpu \in CoreIds, zone \in ReallocZoneInputs, caps \in CapsInputs,
          bytes \in BlockBytesInputs :
          MallocOk(cpu, zone, caps, bytes)
    \/ \E zone \in BufferZoneInputs, caps \in CapsInputs, bytes \in BytesInputs :
          BallocOk(zone, caps, bytes)
    \/ \E cpu \in CoreIds, rec \in BagToSet(live) : RfreeOwn(cpu, rec)

SpecPairs == Init /\ [][NextPairs]_vars

\* every header free, every map full, nothing charged to the heap
AllFree(heap) ==
    /\ heap.info.used = 0
    /\ \A lvl \in 1..heap.blocks :
          /\ heap.map[lvl].free_count = heap.map[lvl].count
          /\ \A k \in DOMAIN heap.map[lvl].block : heap.map[lvl].block[k] = FreeHdr

(* C34: from heaps whose maps are all free, after successful _malloc and   *)
(* _balloc calls and rfree calls that freed every returned pointer exactly *)
(* once and no other pointer, every header has used = 0 and size = 0,      *)
(* every map has free_count = count and info.used is what it was.          *)
C34_AllFreeAgain ==
    live = EmptyBag /\ ~panicked =>
        \A ref \in BlockHeapRefs(memmap) : AllFree(HeapAt(memmap, ref))

----------------------------------------------------------------------------
\* rfree(ptr) twice in a row on core cpu: <<after the first, after the second>>
RfreeTwice(cpu, ptr) ==
    LET f1 == rfree_unlocked(memmap, cpu, ptr)
    IN <<f1, rfree_unlocked(f1.mm, cpu, ptr)>>

\* block-aligned pointers the caller's rfree resolves, cached or aliased
BlockPtrs(cpu) ==
    {p \in PtrInputs : BlockAddress(memmap, cpu, CachedPtr(p))}

(* C35: a second rfree of the same block-aligned pointer, with no          *)
(* allocation in between, leaves every header, free_count, first_free and  *)
(* info counter as the first rfree left them.                              *)
C35_FreeIdempotent ==
    \A cpu \in CoreIds : \A p \in BlockPtrs(cpu) :
        LET f == RfreeTwice(cpu, p)
        IN ~f[1].panic => ~f[2].panic /\ f[2].mm = f[1].mm

\* the first rfree of an outstanding span released blocks, the second found
\* nothing to release
C35_Witness ==
    \E cpu \in CoreIds : \E rec \in BagToSet(live) :
        LET f == RfreeTwice(cpu, rec.ptr)
        IN /\ rec.n >= 2
           /\ rec.ptr \in BlockPtrs(cpu)
           /\ ~f[1].panic
           /\ HeapAt(f[1].mm, rec.ref).map[rec.lvl].free_count
                 # MapAt(memmap, <<rec.ref, rec.lvl>>).free_count
           /\ f[2].mm = f[1].mm

----------------------------------------------------------------------------
\* addresses of the slots after the head of an outstanding span: <<rec, k>>
InnerSlots ==
    {<<rec, k>> \in BagToSet(live) \X (1..3) :
        /\ rec.n >= 2
        /\ rec.s < k /\ k < rec.s + rec.n
        /\ k < MapAt(memmap, <<rec.ref, rec.lvl>>).count}

SlotPtr(rec, k) ==
    LET map == MapAt(memmap, <<rec.ref, rec.lvl>>)
    IN map.base + k * map.block_size

\* the hint of the map names a slot whose header is marked used although
\* the map counts free blocks
HintOnUsed(map) ==
    /\ map.free_count > 0
    /\ map.first_free < map.count
    /\ map.block[map.first_free + 1].used = 1

(* C36: rfree of the block-aligned address of a slot after the head of an  *)
(* outstanding span releases nothing: headers, free_count and info are     *)
(* unchanged, and afterwards first_free does not name a slot still in use  *)
(* while free_count > 0.                                                   *)
C36_InnerFreeHarmless ==
    \A cpu \in CoreIds : \A c \in InnerSlots :
        LET rec == c[1]
            old == HeapAt(memmap, rec.ref)
            f == rfree_unlocked(memmap, cpu, SlotPtr(rec, c[2]))
            new == HeapAt(f.mm, rec.ref)
        IN /\ ~f.panic
           /\ new.info = old.info
           /\ new.map[rec.lvl].block = old.map[rec.lvl].block
           /\ new.map[rec.lvl].free_count = old.map[rec.lvl].free_count
           /\ ~HintOnUsed(old.map[rec.lvl]) => ~HintOnUsed(new.map[rec.lvl])

----------------------------------------------------------------------------
\* either setting of the zone's cache flag
CacheFlags == {"CACHED", "UNCACHED"}

\* _malloc from the caller's system-runtime heap or from the runtime zone
\* and _balloc, cached and uncached: <<cpu, zone, caps, bytes>>
ResolveCases ==
    CoreIds \X {Zone(t, f) : t \in {"SYS_RUNTIME", "RUNTIME", "BUFFER"}, f \in CacheFlags}
            \X CapsInputs \X BytesInputs

ResolveOf(c) ==
    IF c[2].type = "BUFFER" THEN balloc_unlocked(memmap, c[2], c[3], c[4])
    ELSE malloc_unlocked(memmap, c[2], c[3], c[4], c[1])

\* the heap, map and block index rfree(ptr0) on core cpu works on
Resolve(mm, cpu, ptr0) ==
    LET ptr == IF is_uncached(ptr0) THEN uncache_to_cache(ptr0) ELSE ptr0
        ref == get_heap_from_ptr(mm, cpu, ptr)
        level == IF ref = NoHeap THEN 0 ELSE map_of_ptr(HeapAt(mm, ref), ptr)
    IN IF level = 0 THEN <<ref, 0, 0>>
       ELSE <<ref, level, block_of_ptr(HeapAt(mm, ref).map[level], ptr)>>

(* C37: for every pointer returned by _malloc (system-runtime zone on the  *)
(* same core, or runtime zone) or _balloc from heap h, map m, slot k, as   *)
(* a cached address or as its uncached alias, rfree resolves it to the     *)
(* same heap h, map m and index k.                                         *)
C37_ResolveInverts ==
    \A c \in ResolveCases :
        LET r == ResolveOf(c)
        IN r.ptr # NULL /\ ~r.panic =>
              Resolve(r.mm, c[1], r.ptr) = <<r.ref, r.lvl, r.s>>

----------------------------------------------------------------------------
\* how often core c has executed `what` in its call, the step it is at included
Taken(c, what) ==
    Cardinality({i \in 1..pc[c] : EntrySteps(call[c].op)[i] = what})

\* this step is the return of core c's call
Returns(c) == pc[c] # 0 /\ pc'[c] = 0

\* no core is about to take the lock it holds
NoReacquire == \A c \in CoreIds : Step(c) = "spin_lock" => lock # c

\* the lock is free when no core is inside the allocator
IdleFree == Quiescent => lock = NoCore

ReleasedOnce == \A c \in CoreIds : Returns(c) => Taken(c, "spin_unlock") = 1

\* a call returns with as many releases as acquisitions: one of each, or
\* none when a reallocation of zero bytes returns before spin_lock_irq
ReleasedAsTaken ==
    \A c \in CoreIds :
        Returns(c) =>
            /\ Taken(c, "spin_unlock") = Taken(c, "spin_lock")
            /\ Taken(c, "spin_lock") <= 1
            /\ Taken(c, "spin_lock") = 0 =>
                  call[c].op \in {"_realloc", "_brealloc"} /\ call[c].bytes = 0

(* C38 as stated: no entry point tries to acquire memmap.lock while it     *)
(* holds it, every entry point that returns has released the lock exactly  *)
(* once, and the lock is free whenever no allocator call is in progress.   *)
C38_ReleasedExactlyOnce ==
    [](NoReacquire) /\ [](IdleFree) /\ [][ReleasedOnce]_vars

(* C38 amended: no entry point tries to acquire memmap.lock while it holds *)
(* it; every entry point that returns has released the lock as often as it *)
(* acquired it, which is once, or not at all when _realloc or _brealloc    *)
(* return for bytes = 0 before taking the lock; the lock is free whenever  *)
(* no allocator call is in progress.                                       *)
C38_LockBalanced ==
    [](NoReacquire) /\ [](IdleFree) /\ [][ReleasedAsTaken]_vars

\* a reallocation that got its new block is about to free the old one with
\* the unlocked helper, inside its one critical section
C38_Witness ==
    \E c \in CoreIds :
        /\ call[c].op \in {"_realloc", "_brealloc"}
        /\ Step(c) = "free"
        /\ call[c].new.ptr # NULL
        /\ call[c].old.ptr # NULL
        /\ lock = c
        /\ Taken(c, "spin_lock") = 1

----------------------------------------------------------------------------
\* what C39 says of the region a System-zone request r for `bytes` bytes got
\* from system heap `heap`, `after` being the heap when the call returned:
\* everything handed out since the last reset lies below heap + info.used
SysRegion(r, heap, after, bytes) ==
    LET off == r.ptr - heap.heap
    IN ~r.panic =>
          /\ off % PLATFORM_DCACHE_ALIGN = 0
          /\ off >= heap.info.used
          /\ U32Plain(bytes) /\ off + bytes <= heap.size
          /\ after.info.used = off + bytes

(* C39: between two resets by free_heap the regions returned by System-    *)
(* zone allocations on one core's system heap (_malloc or                  *)
(* rzalloc_core_sys) lie inside [heap, heap + size), start at a multiple   *)
(* of PLATFORM_DCACHE_ALIGN from the heap base, have non-decreasing start  *)
(* addresses and never overlap one another.                                *)
C39_SysRegions ==
    /\ \A c \in Cores(memmap) :
          /\ 0 <= memmap.system[c + 1].info.used
          /\ memmap.system[c + 1].info.used <= memmap.system[c + 1].size
    /\ \A c \in SysCases :
          /\ SysRegion(SysOf(c), memmap.system[c[2] + 1],
                       SysOf(c).mm.system[c[2] + 1], c[3])
          /\ c[1] = c[2] =>
                SysRegion(SysMallocOf(c), memmap.system[c[1] + 1],
                          SysMallocOf(c).mm.system[c[1] + 1], c[3])

====
